---- MODULE Spec2Model ----
(***************************************************************************)
(* SQL Search Everywhere: the object-catalog cache, the column cache, the  *)
(* connection cache and the search orchestration, as implemented by        *)
(* ConnectionService, ColumnService and SearchService.                     *)
(*                                                                         *)
(* Every public operation is awaited by its single caller, so an operation *)
(* is one action.  Within one operation the provider reports one active    *)
(* connection and one active database (e.conn, e.db); at most one          *)
(* collaborator call of the operation throws, identified by the            *)
(* collaborator and the call site, <<collaborator, site>>.  The services   *)
(* are initialized: the MSSQL extension API is present.                    *)
(***************************************************************************)
EXTENDS Integers, Sequences, FiniteSets, TLC

\* JavaScript undefined, for string-valued slots.
Undefined == "undefined"

(***************************************************************************)
(* Bounds of the model.                                                    *)
(***************************************************************************)
\* longest row list a bulk catalog query returns
MaxRows == 1
\* longest row list of the filtered catalogs
MaxFilterRows == 2
\* longest search term
MaxTermLen == 2

ConnIds == {"c1", "c2"}
Dbs == {"db1", "db2"}
Uris == {"s1", "s2"}
\* the keys of the catalog cache: a database name, or the sentinel
CacheKeys == Dbs \cup {"default"}

(***************************************************************************)
(* Strings that are searched are sequences of characters.                  *)
(***************************************************************************)
UpperChars == {"A", "B", "C", "N", "O"}

\* String.prototype.toLowerCase on one character
LowerChar(c) ==
    CASE c = "A" -> "a"
      [] c = "B" -> "b"
      [] c = "C" -> "c"
      [] c = "N" -> "n"
      [] c = "O" -> "o"
      [] OTHER -> c

toLowerCase(s) == [i \in 1..Len(s) |-> LowerChar(s[i])]

WhiteSpace == {" "}

RECURSIVE trimStart(_)
trimStart(s) ==
    IF s = <<>> THEN <<>>
    ELSE IF Head(s) \in WhiteSpace THEN trimStart(Tail(s))
    ELSE s

RECURSIVE trimEnd(_)
trimEnd(s) ==
    IF s = <<>> THEN <<>>
    ELSE IF s[Len(s)] \in WhiteSpace THEN trimEnd(SubSeq(s, 1, Len(s) - 1))
    ELSE s

\* String.prototype.trim
trim(s) == trimEnd(trimStart(s))

\* s starts with t at position i (1-based)
RECURSIVE matchAt(_, _, _, _)
matchAt(s, t, i, j) ==
    IF j > Len(t) THEN TRUE
    ELSE IF i + j - 1 > Len(s) THEN FALSE
    ELSE IF s[i + j - 1] # t[j] THEN FALSE
    ELSE matchAt(s, t, i, j + 1)

\* String.prototype.includes: scan the start positions left to right
RECURSIVE includesFrom(_, _, _)
includesFrom(s, t, i) ==
    IF i + Len(t) - 1 > Len(s) THEN FALSE
    ELSE IF matchAt(s, t, i, 1) THEN TRUE
    ELSE includesFrom(s, t, i + 1)

includes(s, t) == includesFrom(s, t, 1)

(***************************************************************************)
(* Program state.                                                          *)
(***************************************************************************)
VARIABLES
    cachedConnectionUri,   \* ConnectionService: primary session id, or Undefined
    cachedConnectionId,    \* ConnectionService: connection identity it was made for
    cachedDatabase,        \* ConnectionService: active database it was made for
    scriptingUriCache,     \* ConnectionService: database name -> scripting session
    objectsCache,          \* SearchService: cache key -> sequence of objects
    columnCache,           \* ColumnService: session id -> ("schema.name" -> columns)
    last,                  \* the operation whose result the caller holds:
                           \* its inputs, its result and the calls it made
    history,               \* history of each cache key since the start:
                           \*   "never"   no bulk fetch was made for it since
                           \*             the catalog cache was last cleared
                           \*   "stored"  its latest bulk fetch returned rows
                           \*   "empty"   its latest bulk fetch returned no rows
                           \*   "cleared" it was cached when the catalog cache was
                           \*             last cleared and not asked for since
    calls,                 \* the invocations of search under way, each with
                           \* the point it is suspended at and what it holds
    stale                  \* the cache keys whose entry was stored by a fetch
                           \* sent before the catalog cache was last cleared

vars == <<cachedConnectionUri, cachedConnectionId, cachedDatabase,
          scriptingUriCache, objectsCache, columnCache, last, history, calls,
          stale>>

\* the empty Map
EmptyMap == [x \in {} |-> Undefined]

\* Map.prototype.set
MapSet(m, k, v) == [x \in (DOMAIN m) \cup {k} |-> IF x = k THEN v ELSE m[x]]

\* Map.prototype.delete
MapDelete(m, k) == [x \in (DOMAIN m) \ {k} |-> m[x]]

NoFault == <<"none", "none">>

(***************************************************************************)
(* The world an operation runs in: the services' fields, followed by the   *)
(* record of what the operation has done so far (collaborator calls made,  *)
(* notices shown).  An operator that models a method takes the world and   *)
(* returns [ret |-> its result, w |-> the world after it].                 *)
(***************************************************************************)
World ==
    [cachedConnectionUri |-> cachedConnectionUri,
     cachedConnectionId  |-> cachedConnectionId,
     cachedDatabase      |-> cachedDatabase,
     scriptingUriCache   |-> scriptingUriCache,
     objectsCache        |-> objectsCache,
     columnCache         |-> columnCache,
     connects    |-> 0,       \* connectionSharing.connect invocations
     reused      |-> 0,       \* session resolutions answered from the cache
     cleared     |-> 0,       \* clearConnectionCache invocations
     fetches     |-> 0,       \* bulk catalog queries requested
     colFetches  |-> 0,       \* bulk column queries requested
     colLookups  |-> 0,       \* columnCache.get invocations
     sent        |-> <<>>,    \* queries handed to executeSimpleQuery
     noConn      |-> 0,       \* ErrorHandler.handleNoConnection notices
     errors      |-> 0,       \* ErrorHandler.handle notices
     legacyConnects |-> 0,    \* mssqlApi.connect invocations (scripting sessions)
     scripted    |-> <<>>,    \* calls handed to connectionSharing.scriptObject
     requests    |-> <<>>,    \* calls of ScriptingService to scriptObject
     warned      |-> <<>>,    \* type codes mapObjectType warned about
     asked       |-> {},      \* <<collaborator, call site>> of the calls made
     thrown      |-> NoFault] \* the collaborator call that threw, if any

(***************************************************************************)
(* ConnectionService                                                       *)
(***************************************************************************)
\* clearConnectionCache, with the scripting bindings kept (a faulty variant)
clearConnectionCacheKeepScripting(w) ==
    [w EXCEPT !.cachedConnectionUri = Undefined,
              !.cachedConnectionId = Undefined,
              !.cachedDatabase = Undefined,
              !.cleared = @ + 1]

\* clearConnectionCache dropping the session id alone (a faulty variant)
clearConnectionCacheSessionOnly(w) ==
    [w EXCEPT !.cachedConnectionUri = Undefined,
              !.scriptingUriCache = EmptyMap,
              !.cleared = @ + 1]

clearConnectionCache(w) ==
    [w EXCEPT !.cachedConnectionUri = Undefined,
              !.cachedConnectionId = Undefined,
              !.cachedDatabase = Undefined,
              !.scriptingUriCache = EmptyMap,
              !.cleared = @ + 1]

\* the catch block of getCurrentConnectionUri
ConnectionUriFailed(w, f) ==
    [ret |-> Undefined, w |-> clearConnectionCache([w EXCEPT !.thrown = f])]

\* the reuse test of getCurrentConnectionUri, without the database (a faulty variant)
CanReuseIgnoringDatabase(w, connectionId, activeDatabase) ==
    /\ w.cachedConnectionUri # Undefined
    /\ w.cachedConnectionId = connectionId

\* the reuse test of getCurrentConnectionUri, passing for a named database only
\* (a faulty variant)
CanReuseNamedDatabaseOnly(w, connectionId, activeDatabase) ==
    /\ w.cachedConnectionUri # Undefined
    /\ w.cachedConnectionId = connectionId
    /\ w.cachedDatabase # Undefined
    /\ w.cachedDatabase = activeDatabase

CanReuse(w, connectionId, activeDatabase) ==
    /\ w.cachedConnectionUri # Undefined
    /\ w.cachedConnectionId = connectionId
    /\ w.cachedDatabase = activeDatabase

\* getCurrentConnectionUri with no active editor connection, the cache kept
\* (a faulty variant)
NoActiveConnectionKeepCache(w) == [ret |-> Undefined, w |-> w]

NoActiveConnection(w) == [ret |-> Undefined, w |-> clearConnectionCache(w)]

\* a call of a collaborator is made
Ask(w, collaborator, site) == [w EXCEPT !.asked = @ \cup {<<collaborator, site>>}]

(* e is what the collaborators answer during the operation:                *)
(*   e.conn, e.db   the active editor connection and the active database   *)
(*   e.connect      the session id connect returns                         *)
(*   e.fault        <<collaborator, call site>> of the call that throws    *)
getCurrentConnectionUri(w, e, site) ==
    LET w1 == Ask(w, "getActiveEditorConnectionId", site)
        w2 == Ask(w1, "getActiveDatabase", site)
        w3 == [Ask(w2, "connect", site) EXCEPT !.connects = @ + 1]
    IN
    IF e.fault = <<"getActiveEditorConnectionId", site>>
    THEN ConnectionUriFailed(w1, e.fault)
    ELSE IF e.conn = Undefined
    THEN NoActiveConnection(w1)
    ELSE IF e.fault = <<"getActiveDatabase", site>>
    THEN ConnectionUriFailed(w2, e.fault)
    ELSE IF CanReuse(w2, e.conn, e.db)
    THEN [ret |-> w2.cachedConnectionUri, w |-> [w2 EXCEPT !.reused = @ + 1]]
    ELSE IF e.fault = <<"connect", site>>
    THEN ConnectionUriFailed(w3, e.fault)
    ELSE IF e.connect # Undefined
    THEN [ret |-> e.connect,
          w |-> [w3 EXCEPT !.cachedConnectionUri = e.connect,
                           !.cachedConnectionId = e.conn,
                           !.cachedDatabase = e.db]]
    ELSE [ret |-> Undefined, w |-> w3]

\* ConnectionService.getActiveDatabase: a throw is logged and yields undefined
getActiveDatabase(w, e, site) ==
    IF e.fault = <<"activeDatabase", site>>
    THEN [ret |-> Undefined, w |-> [Ask(w, "activeDatabase", site) EXCEPT !.thrown = e.fault]]
    ELSE [ret |-> e.db, w |-> Ask(w, "activeDatabase", site)]

(* executeQuery: rows is what executeSimpleQuery answers (an empty         *)
(* sequence also stands for a null result or a result without rows).       *)
executeQuery(w, e, site, query, rows) ==
    LET Send(ws) ==
            IF e.fault = <<"executeSimpleQuery", site>>
            THEN [ret |-> <<>>, w |-> [ws EXCEPT !.errors = @ + 1, !.thrown = e.fault]]
            ELSE [ret |-> rows, w |-> ws]
        WithUri(r) ==
            IF r.ret = Undefined
            THEN [ret |-> <<>>, w |-> [r.w EXCEPT !.noConn = @ + 1]]
            ELSE Send([Ask(r.w, "executeSimpleQuery", site) EXCEPT
                          !.sent = Append(@, [uri |-> r.ret, query |-> query])])
    IN  WithUri(getCurrentConnectionUri(w, e, site))

\* `USE [database];` followed by the query, or the bare query
Use(database, q) == [use |-> database, q |-> q]

\* executeQueryWithDatabase prefixing only with a database it is given
\* (a faulty variant)
executeQueryWithDatabaseAsGiven(w, e, site, q, database, rows) ==
    executeQuery(w, e, site, Use(database, q), rows)

executeQueryWithDatabase(w, e, site, q, database, rows) ==
    LET WithDatabase(d) == executeQuery(d.w, e, site, Use(d.ret, q), rows)
    IN  WithDatabase(IF database # Undefined
                     THEN [ret |-> database, w |-> w]
                     ELSE getActiveDatabase(w, e, site))

(***************************************************************************)
(* SearchService: rows to objects                                          *)
(***************************************************************************)
ObjectTypes == {"Table", "View", "StoredProcedure", "ScalarValuedFunction",
                "TableValuedFunction"}

\* the type codes mapObjectType has a case for
KnownTypeCodes ==
    {"TABLE", "USER_TABLE", "VIEW", "SQL_STORED_PROCEDURE", "SQL_SCALAR_FUNCTION",
     "SQL_INLINE_TABLE_VALUED_FUNCTION", "SQL_TABLE_VALUED_FUNCTION"}

\* mapObjectType without its default case (a faulty variant)
mapObjectTypeAsGiven(type) ==
    CASE type \in {"TABLE", "USER_TABLE"} -> "Table"
      [] type = "VIEW" -> "View"
      [] type = "SQL_STORED_PROCEDURE" -> "StoredProcedure"
      [] type = "SQL_SCALAR_FUNCTION" -> "ScalarValuedFunction"
      [] type \in {"SQL_INLINE_TABLE_VALUED_FUNCTION", "SQL_TABLE_VALUED_FUNCTION"}
           -> "TableValuedFunction"
      [] OTHER -> type

mapObjectType(type) ==
    CASE type \in {"TABLE", "USER_TABLE"} -> "Table"
      [] type = "VIEW" -> "View"
      [] type = "SQL_STORED_PROCEDURE" -> "StoredProcedure"
      [] type = "SQL_SCALAR_FUNCTION" -> "ScalarValuedFunction"
      [] type \in {"SQL_INLINE_TABLE_VALUED_FUNCTION", "SQL_TABLE_VALUED_FUNCTION"}
           -> "TableValuedFunction"
      [] OTHER -> "Table"

\* the schema a row without one is given
DefaultSchema == <<"d", "b", "o">>

\* a null or empty ObjectName / SchemaName is the empty sequence
transformResult(row, database) ==
    [name       |-> row.ObjectName,
     schema     |-> IF row.SchemaName # <<>> THEN row.SchemaName ELSE DefaultSchema,
     type       |-> mapObjectType(row.ObjectType),
     database   |-> database,
     columns    |-> Undefined,
     definition |-> Undefined]

\* Array.prototype.map
MapSeq(Op(_), s) == [i \in 1..Len(s) |-> Op(s[i])]

\* getOrFetchObjects storing whatever the query returned, also no rows
\* (a faulty variant)
\* the codes mapObjectType warns about while the rows are transformed: those
\* of its default case, in row order
UnknownTypes(rows) ==
    SelectSeq([i \in 1..Len(rows) |-> rows[i].ObjectType],
              LAMBDA type : type \notin KnownTypeCodes)

StoreFetchedAlways(q, cacheKey, database) ==
    LET objects == MapSeq(LAMBDA row: transformResult(row, database), q.ret) IN
    [ret |-> objects,
     w |-> [q.w EXCEPT !.objectsCache = MapSet(@, cacheKey, objects),
              !.warned = @ \o UnknownTypes(q.ret)]]

\* getOrFetchObjects storing each object as it is transformed and stopping
\* after the first (a faulty variant)
StoreFetchedFirstOnly(q, cacheKey, database) ==
    IF q.ret = <<>>
    THEN [ret |-> <<>>, w |-> q.w]
    ELSE LET objects == MapSeq(LAMBDA row: transformResult(row, database), q.ret) IN
         [ret |-> objects,
          w |-> [q.w EXCEPT !.objectsCache = MapSet(@, cacheKey, <<objects[1]>>),
              !.warned = @ \o UnknownTypes(q.ret)]]

\* getOrFetchObjects adding the fetched objects to an entry it finds under
\* the key (a faulty variant)
StoreFetchedMerging(q, cacheKey, database) ==
    IF q.ret = <<>>
    THEN [ret |-> <<>>, w |-> q.w]
    ELSE LET objects == MapSeq(LAMBDA row: transformResult(row, database), q.ret) IN
         [ret |-> objects,
          w |-> [q.w EXCEPT !.objectsCache =
                    MapSet(@, cacheKey,
                           (IF cacheKey \in DOMAIN @ THEN @[cacheKey] ELSE <<>>)
                               \o objects),
              !.warned = @ \o UnknownTypes(q.ret)]]

\* the part of getOrFetchObjects after the query: q is the query's outcome
StoreFetched(q, cacheKey, database) ==
    IF q.ret = <<>>
    THEN [ret |-> <<>>, w |-> q.w]
    ELSE LET objects == MapSeq(LAMBDA row: transformResult(row, database), q.ret) IN
         [ret |-> objects,
          w |-> [q.w EXCEPT !.objectsCache = MapSet(@, cacheKey, objects),
              !.warned = @ \o UnknownTypes(q.ret)]]

\* whether getOrFetchObjects answers from the cache; never (a faulty variant)
CachedNever(w, cacheKey) == FALSE

\* whether getOrFetchObjects answers from the cache (a stored array is truthy)
Cached(w, cacheKey) == cacheKey \in DOMAIN w.objectsCache

\* e.rows is what the bulk catalog query answers
getOrFetchObjects(w, e, cacheKey, database) ==
    IF Cached(w, cacheKey)
    THEN [ret |-> w.objectsCache[cacheKey], w |-> w]
    ELSE StoreFetched(
            executeQueryWithDatabase([w EXCEPT !.fetches = @ + 1], e, "fetch",
                                     "ALL_OBJECTS_QUERY", database, e.rows),
            cacheKey, database)

(***************************************************************************)
(* ColumnService                                                           *)
(***************************************************************************)
getCacheKey(uri) == uri

\* `${schema}.${name}`
ColumnKey(schema, name) == schema \o <<".">> \o name

\* the Map built from the column rows, a later row replacing an earlier one
RECURSIVE BuildColumnMap(_, _)
BuildColumnMap(results, columnMap) ==
    IF results = <<>> THEN columnMap
    ELSE LET row == Head(results) IN
         BuildColumnMap(Tail(results),
                        MapSet(columnMap, ColumnKey(row.SchemaName, row.ObjectName),
                               row.Columns))

\* fetchColumns answering an empty map when the query gives no rows
\* (a faulty variant)
fetchColumnsWithoutEmptyCheck(w, e) ==
    LET WithResults(q) ==
            [ok |-> TRUE, map |-> BuildColumnMap(q.ret, EmptyMap), w |-> q.w]
    IN  WithResults(executeQueryWithDatabase([w EXCEPT !.colFetches = @ + 1], e,
                                             "columns", "COLUMNS_QUERY", Undefined,
                                             e.colRows))

\* e.colRows is what the bulk column query answers; a null Columns is ""
fetchColumns(w, e) ==
    LET WithResults(q) ==
            IF q.ret = <<>>
            THEN [ok |-> FALSE, map |-> EmptyMap, w |-> q.w]
            ELSE [ok |-> TRUE, map |-> BuildColumnMap(q.ret, EmptyMap), w |-> q.w]
    IN  WithResults(executeQueryWithDatabase([w EXCEPT !.colFetches = @ + 1], e,
                                             "columns", "COLUMNS_QUERY", Undefined,
                                             e.colRows))

IsTableOrView(o) == o.type = "Table" \/ o.type = "View"

\* a Table or View given a columns value whether or not the map has its key
\* (a faulty variant)
WithColumnsUnchecked(obj, columnMap) ==
    IF IsTableOrView(obj)
    THEN [obj EXCEPT !.columns =
            IF ColumnKey(obj.schema, obj.name) \in DOMAIN columnMap
            THEN columnMap[ColumnKey(obj.schema, obj.name)] ELSE ""]
    ELSE obj

\* one object of the result of enrichWithColumns
WithColumns(obj, columnMap) ==
    IF IsTableOrView(obj)
       /\ ColumnKey(obj.schema, obj.name) \in DOMAIN columnMap
       /\ columnMap[ColumnKey(obj.schema, obj.name)] # ""
    THEN [obj EXCEPT !.columns = columnMap[ColumnKey(obj.schema, obj.name)]]
    ELSE obj

\* objects.map of enrichWithColumns writing the columns into the objects it
\* was given, which are the objects the catalog cache holds (a faulty variant)
MapWithColumnsInPlace(w, objects, columnMap) ==
    [ret |-> [i \in 1..Len(objects) |-> WithColumns(objects[i], columnMap)],
     w |-> [w EXCEPT !.objectsCache =
              [k \in DOMAIN @ |->
                 [i \in 1..Len(@[k]) |->
                    IF \E j \in 1..Len(objects) : objects[j] = @[k][i]
                    THEN WithColumns(@[k][i], columnMap)
                    ELSE @[k][i]]]]]

\* objects.map of enrichWithColumns: { ...obj, columns } is a new object, the
\* one it was given is left as it was
MapWithColumns(w, objects, columnMap) ==
    [ret |-> [i \in 1..Len(objects) |-> WithColumns(objects[i], columnMap)],
     w |-> w]

\* the early return of enrichWithColumns taken for no objects only
\* (a faulty variant)
NothingToEnrichWhenEmpty(objects) == objects = <<>>

\* the early return of enrichWithColumns: tablesAndViews.length === 0
NothingToEnrich(objects) == SelectSeq(objects, IsTableOrView) = <<>>

\* enrichWithColumns fetching the column map on every call (a faulty
\* variant)
enrichWithColumnsUncached(w, e, uri, objects) ==
    IF NothingToEnrich(objects)
    THEN [ret |-> objects, w |-> w]
    ELSE LET cacheKey == getCacheKey(uri)
             WithMap(f, w2) ==
                 IF ~f.ok
                 THEN [ret |-> objects, w |-> w2]
                 ELSE MapWithColumns(w2, objects, f.map)
             Fetched(f) ==
                 WithMap(f, IF f.ok
                            THEN [f.w EXCEPT !.columnCache = MapSet(@, cacheKey, f.map)]
                            ELSE f.w)
         IN Fetched(fetchColumns([w EXCEPT !.colLookups = @ + 1], e))

enrichWithColumns(w, e, uri, objects) ==
    IF NothingToEnrich(objects)
    THEN [ret |-> objects, w |-> w]
    ELSE LET cacheKey == getCacheKey(uri)
             hit == cacheKey \in DOMAIN w.columnCache
             WithMap(f, w2) ==
                 IF ~f.ok
                 THEN [ret |-> objects, w |-> w2]
                 ELSE MapWithColumns(w2, objects, f.map)
             Fetched(f) ==
                 WithMap(f, IF f.ok
                            THEN [f.w EXCEPT !.columnCache = MapSet(@, cacheKey, f.map)]
                            ELSE f.w)
         IN IF hit
            THEN WithMap([ok |-> TRUE, map |-> w.columnCache[cacheKey]],
                         [w EXCEPT !.colLookups = @ + 1])
            ELSE Fetched(fetchColumns([w EXCEPT !.colLookups = @ + 1], e))

\* clearCache dropping every session's map whatever its argument (a faulty
\* variant)
clearCacheEverySession(w, uri) ==
    [w EXCEPT !.columnCache = EmptyMap]

\* clearCache(uri)
clearCache(w, uri) ==
    IF uri # Undefined
    THEN [w EXCEPT !.columnCache = MapDelete(@, getCacheKey(uri))]
    ELSE [w EXCEPT !.columnCache = EmptyMap]

(***************************************************************************)
(* ConnectionService: scripting                                            *)
(***************************************************************************)
mapObjectTypeForScripting(type) ==
    CASE type \in {"ScalarValuedFunction", "TableValuedFunction", "Function"}
           -> "UserDefinedFunction"
      [] OTHER -> type

(* getScriptingUri: exc tells that a collaborator threw (getConnectionString *)
(* or the legacy connect); e.scriptConnect is what the legacy connect      *)
(* answers.                                                                *)
getScriptingUri(w, e, database) ==
    IF database \in DOMAIN w.scriptingUriCache
    THEN [ret |-> w.scriptingUriCache[database], exc |-> FALSE, w |-> w]
    ELSE LET Connect(w1, w2) ==
                 IF e.fault = <<"getConnectionString", "script">>
                 THEN [ret |-> Undefined, exc |-> TRUE,
                       w |-> [w1 EXCEPT !.thrown = e.fault]]
                 ELSE IF e.fault = <<"legacyConnect", "script">>
                 THEN [ret |-> Undefined, exc |-> TRUE,
                       w |-> [w2 EXCEPT !.thrown = e.fault]]
                 ELSE [ret |-> e.scriptConnect, exc |-> FALSE,
                       w |-> [w2 EXCEPT !.scriptingUriCache =
                                            MapSet(@, database, e.scriptConnect)]]
             WithBase(r) ==
                 IF r.ret = Undefined
                 THEN [ret |-> Undefined, exc |-> FALSE, w |-> r.w]
                 ELSE Connect(Ask(r.w, "getConnectionString", "script"),
                              [Ask(Ask(r.w, "getConnectionString", "script"),
                                   "legacyConnect", "script")
                                  EXCEPT !.legacyConnects = @ + 1])
         IN  WithBase(getCurrentConnectionUri(w, e, "script"))

(* The try block of scriptObject; e.script is what the backend answers and *)
(* exc tells that an exception reached the catch.                          *)
\* scriptObject asking for the primary session whatever the active database
\* (a faulty variant)
ScriptObjectTryOverPrimary(w, e, operation, schema, name, type) ==
    LET Send(ws) ==
            IF e.fault = <<"scriptObject", "script">>
            THEN [ret |-> Undefined, exc |-> TRUE, w |-> [ws EXCEPT !.thrown = e.fault]]
            ELSE [ret |-> e.script, exc |-> FALSE, w |-> ws]
        WithUri(u) ==
            IF u.exc \/ u.ret = Undefined
            THEN [ret |-> Undefined, exc |-> u.exc, w |-> u.w]
            ELSE Send([Ask(u.w, "scriptObject", "script") EXCEPT !.scripted =
                          Append(@, [uri |-> u.ret, operation |-> operation,
                                     type |-> mapObjectTypeForScripting(type),
                                     schema |-> schema, name |-> name])])
        Primary(r) == [ret |-> r.ret, exc |-> FALSE, w |-> r.w]
        WithDatabase(activeDb) ==
            WithUri(Primary(getCurrentConnectionUri(activeDb.w, e, "script")))
    IN  WithDatabase(getActiveDatabase(w, e, "script"))

ScriptObjectTry(w, e, operation, schema, name, type) ==
    LET Send(ws) ==
            IF e.fault = <<"scriptObject", "script">>
            THEN [ret |-> Undefined, exc |-> TRUE, w |-> [ws EXCEPT !.thrown = e.fault]]
            ELSE [ret |-> e.script, exc |-> FALSE, w |-> ws]
        WithUri(u) ==
            IF u.exc \/ u.ret = Undefined
            THEN [ret |-> Undefined, exc |-> u.exc, w |-> u.w]
            ELSE Send([Ask(u.w, "scriptObject", "script") EXCEPT !.scripted =
                          Append(@, [uri |-> u.ret, operation |-> operation,
                                     type |-> mapObjectTypeForScripting(type),
                                     schema |-> schema, name |-> name])])
        Primary(r) == [ret |-> r.ret, exc |-> FALSE, w |-> r.w]
        WithDatabase(activeDb) ==
            WithUri(IF activeDb.ret # Undefined
                    THEN getScriptingUri(activeDb.w, e, activeDb.ret)
                    ELSE Primary(getCurrentConnectionUri(activeDb.w, e, "script")))
    IN  WithDatabase(getActiveDatabase(w, e, "script"))

\* scriptObject without its catch block (a faulty variant)
ScriptObjectUncaught(b) == b

\* the catch block of scriptObject: the error is logged, undefined returned
ScriptObjectCatch(b) ==
    IF b.exc THEN [b EXCEPT !.ret = Undefined, !.exc = FALSE] ELSE b

scriptObject(w, e, operation, schema, name, type) ==
    ScriptObjectCatch(ScriptObjectTry(w, e, operation, schema, name, type))

(***************************************************************************)
(* SearchService.search                                                    *)
(***************************************************************************)
Matches(obj, lowerTerm) ==
    \/ includes(toLowerCase(obj.name), lowerTerm)
    \/ includes(toLowerCase(obj.schema), lowerTerm)

\* the filter step of search, matching the name only (a faulty variant)
filterByNameOnly(objects, searchTerm) ==
    IF trim(searchTerm) # <<>>
    THEN SelectSeq(objects,
                   LAMBDA obj: includes(toLowerCase(obj.name), toLowerCase(searchTerm)))
    ELSE objects

\* the filter step of search
filterByTerm(objects, searchTerm) ==
    IF trim(searchTerm) # <<>>
    THEN SelectSeq(objects, LAMBDA obj: Matches(obj, toLowerCase(searchTerm)))
    ELSE objects

\* the clear of search dropping only the active key's entry (a faulty variant)
ClearCachesActiveKeyOnly(w, uri, cacheKey) ==
    clearCache([w EXCEPT !.objectsCache = MapDelete(@, cacheKey)], uri)

\* the clear of search dropping every session's column map (a faulty variant)
ClearCachesAllColumns(w, uri, cacheKey) ==
    clearCache([w EXCEPT !.objectsCache = EmptyMap], Undefined)

\* the clear of search that also drops the connection cache (a variant)
ClearCachesAndConnection(w, uri, cacheKey) ==
    clearConnectionCache(clearCache([w EXCEPT !.objectsCache = EmptyMap], uri))

\* the clear of search: objectsCache.clear(); columnService.clearCache(uri)
ClearCaches(w, uri, cacheKey) ==
    clearCache([w EXCEPT !.objectsCache = EmptyMap], uri)

(* The try block of search.  exc tells that an exception reached the catch; *)
(* uri, key and catalog are the session resolved, the cache key and the    *)
(* sequence getOrFetchObjects returned (key Undefined: not reached).       *)
SearchTry(w, e, searchTerm, clearCacheFlag) ==
    LET Outcome(c, exc, uri, cacheKey, catalog) ==
            [ret |-> c.ret, exc |-> exc, w |-> c.w,
             uri |-> uri, key |-> cacheKey, catalog |-> catalog]
        Configured(uri, cacheKey, catalog, objects, wg) ==
            IF e.fault = <<"getConfiguration", "search">>
            THEN Outcome([ret |-> <<>>, w |-> [wg EXCEPT !.thrown = e.fault]],
                         TRUE, uri, cacheKey, catalog)
            ELSE IF e.includeTableColumns
            THEN Outcome(enrichWithColumns(wg, e, uri, objects),
                         FALSE, uri, cacheKey, catalog)
            ELSE Outcome([ret |-> objects, w |-> wg], FALSE, uri, cacheKey, catalog)
        Fetched(uri, cacheKey, g) ==
            Configured(uri, cacheKey, g.ret, filterByTerm(g.ret, searchTerm),
                       Ask(g.w, "getConfiguration", "search"))
        Keyed(uri, d, cacheKey) ==
            Fetched(uri, cacheKey,
                    getOrFetchObjects(IF clearCacheFlag
                                      THEN ClearCaches(d.w, uri, cacheKey)
                                      ELSE d.w,
                                      e, cacheKey, d.ret))
        WithDatabase(uri, d) ==
            Keyed(uri, d, IF d.ret # Undefined THEN d.ret ELSE "default")
        WithUri(r) ==
            IF r.ret = Undefined
            THEN Outcome([ret |-> <<>>, w |-> [r.w EXCEPT !.noConn = @ + 1]],
                         FALSE, Undefined, Undefined, <<>>)
            ELSE WithDatabase(r.ret, getActiveDatabase(r.w, e, "search"))
    IN  WithUri(getCurrentConnectionUri(w, e, "search"))

\* search without its catch block (a faulty variant)
SearchUncaught(b) == b

\* the catch block of search: ErrorHandler.handle, return []
SearchCatch(b) ==
    IF b.exc
    THEN [b EXCEPT !.ret = <<>>, !.exc = FALSE, !.w.errors = @ + 1]
    ELSE b

search(w, e, searchTerm, clearCacheFlag) ==
    SearchCatch(SearchTry(w, e, searchTerm, clearCacheFlag))

(***************************************************************************)
(* ConfigurationService and ScriptingService.  config is what              *)
(* getConfiguration returns; a generated script is the sequence of its     *)
(* characters.                                                             *)
(***************************************************************************)
ObjectActions == {"Select", "Create", "Delete", "Execute", "Alter", "Insert Name"}

\* enum ScriptOperation
ScriptOperation ==
    [Select |-> 0, Create |-> 1, Insert |-> 2, Update |-> 3, Delete |-> 4,
     Execute |-> 5, Alter |-> 6]

\* getActionForType reading the table's action for every type (a faulty
\* variant)
getActionForTypeOfTable(config, type) == config.tableAction

getActionForType(config, type) ==
    CASE type = "Table" -> config.tableAction
      [] type = "View" -> config.viewAction
      [] type = "StoredProcedure" -> config.storedProcedureAction
      [] type \in {"ScalarValuedFunction", "TableValuedFunction"}
           -> config.functionAction
      [] OTHER -> "Select"

getScriptRowLimit(config) == config.scriptRowLimit

\* the qualified name without its brackets (a faulty variant)
getQualifiedNameBare(object) == object.schema \o <<".">> \o object.name

\* `[${object.schema}].[${object.name}]`
getQualifiedName(object) ==
    <<"[">> \o object.schema \o <<"]", ".", "[">> \o object.name \o <<"]">>

DigitChars == <<"0", "1", "2", "3", "4", "5", "6", "7", "8", "9">>

\* `${n}` for a number n: its decimal digits, a minus sign before them
RECURSIVE NumberToString(_)
NumberToString(n) ==
    IF n < 0 THEN <<"-">> \o NumberToString(0 - n)
    ELSE IF n < 10 THEN <<DigitChars[n + 1]>>
    ELSE NumberToString(n \div 10) \o <<DigitChars[(n % 10) + 1]>>

(* Regular expressions of ensureTopClause, on sequences of characters.     *)
(* Positions are 1-based; a position past the end is Len(s) + 1.           *)
\* \s
RegexSpace == {" ", "\t", "\n", "\r"}

\* \d
RegexDigit == {"0", "1", "2", "3", "4", "5", "6", "7", "8", "9"}

\* the canonical form of a character under the flag i
FoldCase(c) ==
    CASE c = "s" -> "S" [] c = "e" -> "E" [] c = "l" -> "L" [] c = "c" -> "C"
      [] c = "t" -> "T" [] c = "o" -> "O" [] c = "p" -> "P"
      [] OTHER -> c

\* the literal word stands at position i of s, letter case ignored
WordAt(s, i, word) ==
    /\ i + Len(word) - 1 <= Len(s)
    /\ \A k \in 1..Len(word) : FoldCase(s[i + k - 1]) = FoldCase(word[k])

\* the position after the longest run of characters of class at position i
SkipClass(s, i, class) ==
    CHOOSE j \in i..(Len(s) + 1) :
        /\ \A k \in i..(j - 1) : s[k] \in class
        /\ j = Len(s) + 1 \/ s[j] \notin class

\* \(\s*\d+\s*\) at position d: the position after it, 0 without a match
ParenthesizedNumberEnd(s, d) ==
    LET Closed(p1, p2, p3) ==
            IF p2 > p1 /\ p3 <= Len(s) /\ s[p3] = ")" THEN p3 + 1 ELSE 0
        Digits(p1, p2) == Closed(p1, p2, SkipClass(s, p2, RegexSpace))
        Opened(p1) == Digits(p1, SkipClass(s, p1, RegexDigit))
    IN  IF d <= Len(s) /\ s[d] = "("
        THEN Opened(SkipClass(s, d + 1, RegexSpace))
        ELSE 0

\* \d+ at position d: the position after it, 0 without a match
BareNumberEnd(s, d) ==
    LET Run(q) == IF q > d THEN q ELSE 0
    IN  Run(SkipClass(s, d, RegexDigit))

\* (\(\s*\d+\s*\)|\d+) at position d
TopValueEnd(s, d) ==
    IF ParenthesizedNumberEnd(s, d) # 0
    THEN ParenthesizedNumberEnd(s, d)
    ELSE BareNumberEnd(s, d)

\* SELECT\s+ at position i: the position after it, 0 without a match
SelectEnd(s, i) ==
    LET Spaced(b) == IF b > i + 6 THEN b ELSE 0
    IN  IF WordAt(s, i, <<"S", "E", "L", "E", "C", "T">>)
        THEN Spaced(SkipClass(s, i + 6, RegexSpace))
        ELSE 0

\* /SELECT\s+TOP\s*(\(\s*\d+\s*\)|\d+)/i at position i: the position after
\* the match, 0 without a match
SelectTopEnd(s, i) ==
    LET Top(b) ==
            IF b # 0 /\ WordAt(s, b, <<"T", "O", "P">>)
            THEN TopValueEnd(s, SkipClass(s, b + 3, RegexSpace))
            ELSE 0
    IN  Top(SelectEnd(s, i))

\* where the leftmost match of the SELECT TOP expression starts, 0 if none
SelectTopStart(s) ==
    IF \E i \in 1..Len(s) : SelectTopEnd(s, i) # 0
    THEN CHOOSE i \in 1..Len(s) :
            /\ SelectTopEnd(s, i) # 0
            /\ \A k \in 1..(i - 1) : SelectTopEnd(s, k) = 0
    ELSE 0

\* /^(\s*SELECT\s+)/i: the position after the match, 0 without a match
LeadingSelectEnd(s) == SelectEnd(s, SkipClass(s, 1, RegexSpace))

\* `TOP ${rowLimit}`
TopClause(rowLimit) == <<"T", "O", "P", " ">> \o NumberToString(rowLimit)

\* ensureTopClause: script.replace(/(SELECT\s+)TOP\s*(\(\s*\d+\s*\)|\d+)/i,
\* `$1TOP ${rowLimit}`) when that expression matches somewhere, else
\* script.replace(/^(\s*SELECT\s+)/i, `$1TOP ${rowLimit} `)
ensureTopClause(script, rowLimit) ==
    LET Replaced(i) ==
            SubSeq(script, 1, SelectEnd(script, i) - 1) \o TopClause(rowLimit)
                \o SubSeq(script, SelectTopEnd(script, i), Len(script))
        Injected(a) ==
            IF a = 0 THEN script
            ELSE SubSeq(script, 1, a - 1) \o TopClause(rowLimit) \o <<" ">>
                    \o SubSeq(script, a, Len(script))
    IN  IF SelectTopStart(script) # 0
        THEN Replaced(SelectTopStart(script))
        ELSE Injected(LeadingSelectEnd(script))

(* The scripts the backend answers are strings, which cannot be indexed:   *)
(* Characters gives the characters of each.                                *)
ScriptWithTop == "SELECT TOP (50) * FROM [dbo].[T]"
ScriptWithoutTop == "SELECT * FROM [dbo].[T]"
ScriptWithComment == "-- T\nSELECT * FROM [dbo].[T]"
ScriptOfProcedure == "EXEC [dbo].[B]"

BackendScripts ==
    {ScriptWithTop, ScriptWithoutTop, ScriptWithComment, ScriptOfProcedure}

Characters(script) ==
    CASE script = ScriptWithTop ->
        <<"S", "E", "L", "E", "C", "T", " ", "T", "O", "P", " ", "(", "5",
          "0", ")", " ", "*", " ", "F", "R", "O", "M", " ", "[", "d", "b",
          "o", "]", ".", "[", "T", "]">>
      [] script = ScriptWithoutTop ->
        <<"S", "E", "L", "E", "C", "T", " ", "*", " ", "F", "R", "O", "M",
          " ", "[", "d", "b", "o", "]", ".", "[", "T", "]">>
      [] script = ScriptWithComment ->
        <<"-", "-", " ", "T", "\n", "S", "E", "L", "E", "C", "T", " ", "*",
          " ", "F", "R", "O", "M", " ", "[", "d", "b", "o", "]", ".", "[",
          "T", "]">>
      [] script = ScriptOfProcedure ->
        <<"E", "X", "E", "C", " ", "[", "d", "b", "o", "]", ".", "[", "B",
          "]">>
      [] script = "" -> <<>>

\* if (script): undefined and the empty string are falsy
Truthy(script) == script # Undefined /\ script # ""

\* this.connectionService.scriptObject(operation, object.schema, object.name,
\* object.type), as every strategy calls it
RequestScript(w, e, operation, object) ==
    scriptObject([w EXCEPT !.requests =
                     Append(@, [operation |-> operation, schema |-> object.schema,
                                name |-> object.name, type |-> object.type])],
                 e, operation, object.schema, object.name, object.type)

\* a string returned by generateScript
Text(chars) == [defined |-> TRUE, text |-> chars]

\* generateSelectScript; r is the outcome of the scripting call
SelectScript(r, config, object) ==
    IF r.exc
    THEN Text(<<"S", "E", "L", "E", "C", "T", " ", "T", "O", "P", " ">>
              \o NumberToString(getScriptRowLimit(config))
              \o <<" ", "*", "\n", "F", "R", "O", "M", " ">>
              \o getQualifiedName(object) \o <<";", "\n">>)
    ELSE IF Truthy(r.ret)
    THEN Text(ensureTopClause(Characters(r.ret), getScriptRowLimit(config)))
    ELSE Text(<<"-", "-", " ", "C", "o", "u", "l", "d", " ", "n", "o", "t",
                " ", "g", "e", "n", "e", "r", "a", "t", "e", " ", "S", "E",
                "L", "E", "C", "T", " ", "s", "c", "r", "i", "p", "t", " ",
                "f", "o", "r", " ">>
              \o getQualifiedName(object)
              \o <<"\n", "S", "E", "L", "E", "C", "T", " ", "*", " ", "F",
                "R", "O", "M", " ">>
              \o getQualifiedName(object) \o <<";", "\n">>)

generateSelectScript(w, e, config, object) ==
    LET Done(r) == [ret |-> SelectScript(r, config, object), w |-> r.w]
    IN  Done(RequestScript(w, e, 0, object))

\* generateExecuteScript; r is the outcome of the scripting call
\* the Execute strategy with a bare EXEC statement for a missing script
ExecuteScriptWithoutHint(r, object) ==
    IF ~r.exc /\ Truthy(r.ret)
    THEN Text(Characters(r.ret))
    ELSE Text(<<"E", "X", "E", "C", " ">> \o getQualifiedName(object)
              \o <<";", "\n">>)

ExecuteScript(r, object) ==
    IF ~r.exc /\ Truthy(r.ret)
    THEN Text(Characters(r.ret))
    ELSE Text(<<"E", "X", "E", "C", " ">> \o getQualifiedName(object)
              \o <<";", "\n", "-", "-", " ", "S", "p", "e", "c", "i", "f",
                "y", " ", "p", "a", "r", "a", "m", "e", "t", "e", "r", "s",
                " ", "i", "f", " ", "r", "e", "q", "u", "i", "r", "e", "d",
                "\n">>)

generateExecuteScript(w, e, config, object) ==
    LET Done(r) == [ret |-> ExecuteScript(r, object), w |-> r.w]
    IN  Done(RequestScript(w, e, 5, object))

\* generateCreateScript; r is the outcome of the scripting call
CreateScript(r, object) ==
    IF r.exc
    THEN Text(<<"-", "-", " ", "E", "r", "r", "o", "r", " ", "g", "e", "n",
                "e", "r", "a", "t", "i", "n", "g", " ", "C", "R", "E", "A",
                "T", "E", " ", "s", "c", "r", "i", "p", "t", " ", "f", "o",
                "r", " ">>
              \o getQualifiedName(object) \o <<"\n">>)
    ELSE IF Truthy(r.ret)
    THEN Text(Characters(r.ret))
    ELSE Text(<<"-", "-", " ", "C", "o", "u", "l", "d", " ", "n", "o", "t",
                " ", "g", "e", "n", "e", "r", "a", "t", "e", " ", "C", "R",
                "E", "A", "T", "E", " ", "s", "c", "r", "i", "p", "t", " ",
                "f", "o", "r", " ">>
              \o getQualifiedName(object) \o <<"\n">>)

generateCreateScript(w, e, config, object) ==
    LET Done(r) == [ret |-> CreateScript(r, object), w |-> r.w]
    IN  Done(RequestScript(w, e, 1, object))

\* generateDeleteScript returning the template of its catch block for an
\* undefined script as well (a variant)
DeleteScriptTemplate(r, object) ==
    IF ~r.exc /\ Truthy(r.ret)
    THEN Text(Characters(r.ret))
    ELSE Text(<<"D", "E", "L", "E", "T", "E", " ", "F", "R", "O", "M", " ">>
              \o getQualifiedName(object)
              \o <<"\n", "W", "H", "E", "R", "E", "\n", " ", " ", "-", "-",
                " ", "S", "p", "e", "c", "i", "f", "y", " ", "c", "o", "n",
                "d", "i", "t", "i", "o", "n", ";", "\n">>)

\* generateDeleteScript; r is the outcome of the scripting call
DeleteScript(r, object) ==
    IF r.exc
    THEN Text(<<"D", "E", "L", "E", "T", "E", " ", "F", "R", "O", "M", " ">>
              \o getQualifiedName(object)
              \o <<"\n", "W", "H", "E", "R", "E", "\n", " ", " ", "-", "-",
                " ", "S", "p", "e", "c", "i", "f", "y", " ", "c", "o", "n",
                "d", "i", "t", "i", "o", "n", ";", "\n">>)
    ELSE IF Truthy(r.ret)
    THEN Text(Characters(r.ret))
    ELSE Text(<<"-", "-", " ", "C", "o", "u", "l", "d", " ", "n", "o", "t",
                " ", "g", "e", "n", "e", "r", "a", "t", "e", " ", "D", "E",
                "L", "E", "T", "E", " ", "s", "c", "r", "i", "p", "t", " ",
                "f", "o", "r", " ">>
              \o getQualifiedName(object) \o <<"\n">>)

generateDeleteScript(w, e, config, object) ==
    LET Done(r) == [ret |-> DeleteScript(r, object), w |-> r.w]
    IN  Done(RequestScript(w, e, 4, object))

\* generateAlterScriptViaApi; r is the outcome of the scripting call
\* the Alter strategy passing a missing script on
AlterScriptOrNothing(r, object) ==
    IF ~r.exc /\ Truthy(r.ret)
    THEN Text(Characters(r.ret))
    ELSE [defined |-> FALSE, text |-> <<>>]

AlterScript(r, object) ==
    IF ~r.exc /\ Truthy(r.ret)
    THEN Text(Characters(r.ret))
    ELSE Text(<<"-", "-", " ", "C", "o", "u", "l", "d", " ", "n", "o", "t",
                " ", "g", "e", "n", "e", "r", "a", "t", "e", " ", "A", "L",
                "T", "E", "R", " ", "s", "c", "r", "i", "p", "t", " ", "f",
                "o", "r", " ">>
              \o getQualifiedName(object) \o <<"\n">>)

generateAlterScriptViaApi(w, e, config, object) ==
    LET Done(r) == [ret |-> AlterScript(r, object), w |-> r.w]
    IN  Done(RequestScript(w, e, 6, object))

\* the switch of generateScript; it has no default case, so that another
\* action gives undefined
generateScript(w, e, config, object) ==
    LET Dispatch(action) ==
            CASE action = "Select" -> generateSelectScript(w, e, config, object)
              [] action = "Create" -> generateCreateScript(w, e, config, object)
              [] action = "Delete" -> generateDeleteScript(w, e, config, object)
              [] action = "Execute" -> generateExecuteScript(w, e, config, object)
              [] action = "Alter" -> generateAlterScriptViaApi(w, e, config, object)
              [] action = "Insert Name"
                   -> [ret |-> Text(getQualifiedName(object)), w |-> w]
              [] OTHER -> [ret |-> [defined |-> FALSE, text |-> <<>>], w |-> w]
    IN  Dispatch(getActionForType(config, object.type))

(***************************************************************************)
(* QuickPickProvider.  editor tells what the window shows: "none" (no      *)
(* active editor), "empty" (a blank document) or "content"; the result     *)
(* tells where the text went.                                              *)
(***************************************************************************)
Editors == {"none", "empty", "content"}

\* insertTextIntoEditor
insertTextIntoEditor(text, editor) ==
    IF editor = "empty"
    THEN [where |-> "cursor", text |-> text]
    ELSE [where |-> "document", text |-> text]

\* insertName: the name is formatted here, not by the ScriptingService
insertName(object, editor) ==
    IF editor = "none"
    THEN [where |-> "nowhere", text |-> Text(<<>>)]
    ELSE [where |-> "cursor",
          text |-> Text(<<"[">> \o object.schema \o <<"]", ".", "[">>
                        \o object.name \o <<"]">>)]

\* insertScript
insertScript(w, e, config, object, editor) ==
    LET Inserted(g) == [ret |-> insertTextIntoEditor(g.ret, editor), w |-> g.w]
    IN  Inserted(generateScript(w, e, config, object))

\* handleSelection; another action than the six does nothing
handleSelection(w, e, config, object, editor) ==
    LET Dispatch(action) ==
            CASE action \in {"Select", "Create", "Delete", "Execute", "Alter"}
                   -> insertScript(w, e, config, object, editor)
              [] action = "Insert Name"
                   -> [ret |-> insertName(object, editor), w |-> w]
              [] OTHER -> [ret |-> [where |-> "nowhere", text |-> Text(<<>>)],
                           w |-> w]
    IN  Dispatch(getActionForType(config, object.type))

(***************************************************************************)
(* What the collaborators may answer.                                      *)
(***************************************************************************)
RowTable == [SchemaName |-> <<"s">>, ObjectName |-> <<"A", "b">>,
             ObjectType |-> "USER_TABLE"]
RowProc  == [SchemaName |-> <<>>, ObjectName |-> <<"B">>,
             ObjectType |-> "SQL_STORED_PROCEDURE"]
CatalogRows == {RowTable, RowProc}

\* the sequences over S of length at most n
SeqsUpTo(S, n) == UNION {[1..k -> S] : k \in 0..n}

Catalogs == SeqsUpTo(CatalogRows, MaxRows)

ColRowTable == [SchemaName |-> <<"s">>, ObjectName |-> <<"A", "b">>,
                ObjectType |-> "USER_TABLE", Columns |-> "Id, Name"]
ColRowNone  == [SchemaName |-> <<"s">>, ObjectName |-> <<"A", "b">>,
                ObjectType |-> "USER_TABLE", Columns |-> ""]
ColumnResults == {<<>>, <<ColRowTable>>, <<ColRowNone>>}

TermChars == {"a", "B", " "}
Terms == SeqsUpTo(TermChars, MaxTermLen)

\* the answers an operation does not ask for
Quiet(conn, db, fault) ==
    [conn |-> conn, db |-> db, fault |-> fault, connect |-> Undefined,
     rows |-> <<>>, colRows |-> <<>>, includeTableColumns |-> FALSE,
     scriptConnect |-> Undefined, script |-> Undefined]

(***************************************************************************)
(* Actions: one per public operation.                                      *)
(***************************************************************************)
Trace(w) ==
    [connects |-> w.connects, reused |-> w.reused, cleared |-> w.cleared,
     fetches |-> w.fetches, colFetches |-> w.colFetches,
     colLookups |-> w.colLookups, sent |-> w.sent,
     noConn |-> w.noConn, errors |-> w.errors,
     legacyConnects |-> w.legacyConnects, scripted |-> w.scripted,
     requests |-> w.requests, warned |-> w.warned, thrown |-> w.thrown]

\* the services' fields and the history as an operation finds them
Before ==
    [cachedConnectionUri |-> cachedConnectionUri,
     cachedConnectionId  |-> cachedConnectionId,
     cachedDatabase      |-> cachedDatabase,
     scriptingUriCache   |-> scriptingUriCache,
     objectsCache        |-> objectsCache,
     columnCache         |-> columnCache,
     history             |-> history]

\* the services' fields after construction
Fresh ==
    [cachedConnectionUri |-> Undefined,
     cachedConnectionId  |-> Undefined,
     cachedDatabase      |-> Undefined,
     scriptingUriCache   |-> EmptyMap,
     objectsCache        |-> EmptyMap,
     columnCache         |-> EmptyMap,
     history             |-> [k \in CacheKeys |-> "never"]]

\* no operation has been called, or the caller has taken its result
NoOperation ==
    [op |-> "none", conn |-> Undefined, db |-> Undefined, term |-> <<>>,
     force |-> FALSE, enrich |-> FALSE, uri |-> Undefined, key |-> Undefined,
     catalog |-> <<>>, ret |-> <<>>, exc |-> FALSE, script |-> Undefined,
     database |-> Undefined, rows |-> <<>>, colRows |-> <<>>,
     object |-> Undefined, config |-> Undefined, generated |-> Undefined,
     editor |-> Undefined, inserted |-> Undefined,
     input |-> <<>>, rowLimit |-> 0, pre |-> Fresh,
     trace |-> [connects |-> 0, reused |-> 0, cleared |-> 0, fetches |-> 0,
                colFetches |-> 0, colLookups |-> 0, sent |-> <<>>,
                noConn |-> 0, errors |-> 0,
                legacyConnects |-> 0, scripted |-> <<>>, requests |-> <<>>,
                warned |-> <<>>, thrown |-> NoFault]]

\* the invocations of search that may be under way at once
Invocations == {"first", "second"}

\* an invocation not yet made
NoCall ==
    [pc |-> "idle", force |-> FALSE, enrich |-> FALSE, uri |-> Undefined,
     database |-> Undefined, key |-> Undefined, early |-> FALSE,
     fetched |-> FALSE, rows |-> <<>>, objects |-> <<>>,
     colSent |-> [uri |-> Undefined, use |-> Undefined], colStored |-> FALSE,
     ret |-> <<>>]

Commit(w) ==
    /\ cachedConnectionUri' = w.cachedConnectionUri
    /\ cachedConnectionId' = w.cachedConnectionId
    /\ cachedDatabase' = w.cachedDatabase
    /\ scriptingUriCache' = w.scriptingUriCache
    /\ objectsCache' = w.objectsCache
    /\ columnCache' = w.columnCache
    /\ UNCHANGED <<calls, stale>>

Init ==
    /\ cachedConnectionUri = Fresh.cachedConnectionUri
    /\ cachedConnectionId = Fresh.cachedConnectionId
    /\ cachedDatabase = Fresh.cachedDatabase
    /\ scriptingUriCache = Fresh.scriptingUriCache
    /\ objectsCache = Fresh.objectsCache
    /\ columnCache = Fresh.columnCache
    /\ history = Fresh.history
    /\ last = NoOperation
    /\ calls = [i \in Invocations |-> NoCall]
    /\ stale = {}

\* answers under which an operation makes every call it can make
Eager(conn, db) ==
    [Quiet(conn, db, NoFault) EXCEPT !.connect = "s1", !.rows = <<RowTable>>,
                                     !.includeTableColumns = TRUE,
                                     !.colRows = <<ColRowTable>>,
                                     !.scriptConnect = "s1", !.script = "script"]

Asked(r, collaborator) == \E c \in r.w.asked : c[1] = collaborator

\* the history of the keys after a search with outcome r
HistoryAfter(r, force) ==
    [k \in CacheKeys |->
        IF r.key = Undefined THEN history[k]
        ELSE IF k = r.key
        THEN (IF r.w.fetches > 0
              THEN (IF r.catalog = <<>> THEN "empty" ELSE "stored")
              ELSE IF force THEN "never" ELSE history[k])
        ELSE IF force
        THEN (IF k \in DOMAIN objectsCache THEN "cleared" ELSE "never")
        ELSE history[k]]

(* search(term, clearCache), as the two search commands call it.  An answer *)
(* of a collaborator is drawn only where the operation asks for it, and    *)
(* the call that throws is one of the calls the operation can make and one *)
(* of faults.                                                              *)
Search(conns, dbs, terms, catalogs, faults) ==
    \E term \in terms, force \in BOOLEAN, conn \in conns, db \in dbs :
      \E fault \in {NoFault} \cup
                   (faults \cap search(World, Eager(conn, db), term, force).w.asked) :
        LET q0 == Quiet(conn, db, fault) IN
        \E p0 \in {search(World, q0, term, force)} :
        \E connect \in (IF Asked(p0, "connect") THEN Uris \cup {Undefined}
                        ELSE {Undefined}) :
          LET q1 == [q0 EXCEPT !.connect = connect, !.rows = <<RowTable>>,
                               !.includeTableColumns = TRUE] IN
          \E p1 \in {search(World, q1, term, force)} :
          \E rows \in (IF /\ <<"executeSimpleQuery", "fetch">> \in p1.w.asked
                          /\ fault # <<"executeSimpleQuery", "fetch">>
                       THEN catalogs ELSE {<<>>}),
             cfg \in (IF Asked(p1, "getConfiguration") THEN BOOLEAN ELSE {FALSE}) :
            LET q2 == [q1 EXCEPT !.rows = rows, !.includeTableColumns = cfg] IN
            \E p2 \in {search(World, q2, term, force)} :
            \E colRows \in (IF /\ <<"executeSimpleQuery", "columns">> \in p2.w.asked
                               /\ fault # <<"executeSimpleQuery", "columns">>
                            THEN ColumnResults ELSE {<<>>}) :
              LET e == [q2 EXCEPT !.colRows = colRows] IN
              \E r \in {search(World, e, term, force)} :
              /\ Commit(r.w)
              /\ last' = [op |-> "search", conn |-> e.conn, db |-> e.db,
                          term |-> term, force |-> force,
                          enrich |-> e.includeTableColumns,
                          uri |-> r.uri, key |-> r.key, catalog |-> r.catalog,
                          ret |-> r.ret, exc |-> r.exc, script |-> Undefined,
                          database |-> Undefined, rows |-> rows,
                          colRows |-> colRows, object |-> Undefined,
                          config |-> Undefined, generated |-> Undefined,
                          editor |-> Undefined, inserted |-> Undefined,
                          input |-> <<>>, rowLimit |-> 0,
                          pre |-> Before, trace |-> Trace(r.w)]
              /\ history' = HistoryAfter(r, force)

\* hasActiveConnection(): one session resolution
ResolveActiveSession(conns, dbs) ==
    \E conn \in conns, db \in dbs :
      \E fault \in {NoFault} \cup
                   getCurrentConnectionUri(World, Eager(conn, db), "resolve").w.asked :
        \E p0 \in {getCurrentConnectionUri(World, Quiet(conn, db, fault), "resolve")} :
        \E connect \in (IF Asked(p0, "connect") THEN Uris \cup {Undefined}
                        ELSE {Undefined}) :
          LET e == [Quiet(conn, db, fault) EXCEPT !.connect = connect] IN
          \E r \in {getCurrentConnectionUri(World, e, "resolve")} :
          /\ Commit(r.w)
          /\ last' = [NoOperation EXCEPT !.op = "resolve", !.conn = conn, !.db = db,
                                         !.uri = r.ret, !.pre = Before,
                                         !.trace = Trace(r.w)]
          /\ UNCHANGED history

\* ColumnService.clearCache(uri?), called on its own
ClearColumnCache(uris) ==
    \E uri \in uris :
      \E r \in {clearCache(World, uri)} :
        /\ Commit(r)
        /\ last' = [NoOperation EXCEPT !.op = "clearCache", !.uri = uri,
                                       !.pre = Before, !.trace = Trace(r)]
        /\ UNCHANGED history

ScriptOperations == {0, 1, 4, 5, 6}
ScriptUris == {"x1"}

\* ConnectionService.scriptObject for the stored procedure of the catalog
ScriptObject(conns, dbs, operations) ==
    \E operation \in operations, conn \in conns, db \in dbs :
      LET schema == DefaultSchema
          name == RowProc.ObjectName
          type == "StoredProcedure"
      IN
      \E fault \in {NoFault} \cup
                   scriptObject(World, Eager(conn, db), operation, schema, name,
                                type).w.asked :
        LET q0 == [Quiet(conn, db, fault) EXCEPT !.connect = "s1",
                                                 !.scriptConnect = "x1"] IN
        \E p0 \in {scriptObject(World, q0, operation, schema, name, type)} :
        \E connect \in (IF Asked(p0, "connect") THEN Uris \cup {Undefined}
                        ELSE {"s1"}),
           scriptConnect \in (IF Asked(p0, "legacyConnect")
                              THEN ScriptUris \cup {Undefined} ELSE {"x1"}),
           script \in (IF Asked(p0, "scriptObject") THEN {"script", Undefined}
                       ELSE {Undefined}) :
          LET e == [q0 EXCEPT !.connect = connect, !.scriptConnect = scriptConnect,
                              !.script = script] IN
          \E r \in {scriptObject(World, e, operation, schema, name, type)} :
          /\ Commit(r.w)
          /\ last' = [NoOperation EXCEPT !.op = "scriptObject", !.conn = conn,
                                         !.db = db, !.script = r.ret,
                                         !.exc = r.exc,
                                         !.pre = Before, !.trace = Trace(r.w)]
          /\ UNCHANGED history

\* the objects a script is generated for, as the picker hands them over
ScriptedObjects ==
    {[name |-> <<"A", "b">>, schema |-> <<"s">>, type |-> "Table",
      database |-> "db1", columns |-> Undefined, definition |-> Undefined],
     [name |-> <<"O", "r", "d", "e", "r", "s">>, schema |-> DefaultSchema,
      type |-> "Table",
      database |-> "db1", columns |-> Undefined, definition |-> Undefined],
     [name |-> <<"B">>, schema |-> DefaultSchema, type |-> "StoredProcedure",
      database |-> "db1", columns |-> Undefined, definition |-> Undefined],
     [name |-> <<"c">>, schema |-> DefaultSchema, type |-> "ScalarValuedFunction",
      database |-> "db1", columns |-> Undefined, definition |-> Undefined],
     [name |-> <<"a">>, schema |-> <<"s">>, type |-> "Synonym",
      database |-> "db1", columns |-> Undefined, definition |-> Undefined]}

\* the configurations read: any action for tables, two for procedures and
\* for functions
Configurations ==
    [includeTableColumns : {FALSE}, tableAction : ObjectActions,
     viewAction : {"Select"},
     storedProcedureAction : {"Alter", "Delete", "Execute"},
     functionAction : {"Alter", "Create"}, scriptRowLimit : {1000}]

\* ScriptingService.generateScript for an object of the picker
GenerateScript(conns, dbs, objects, configs) ==
    \E object \in objects, config \in configs, conn \in conns, db \in dbs :
      \E fault \in {NoFault} \cup
                   generateScript(World, [Eager(conn, db) EXCEPT !.script = ScriptWithTop],
                                  config, object).w.asked :
        LET q0 == [Quiet(conn, db, fault) EXCEPT !.connect = "s1",
                                                 !.scriptConnect = "x1"] IN
        \E p0 \in {generateScript(World, q0, config, object)} :
        \E connect \in (IF Asked(p0, "connect") THEN Uris \cup {Undefined}
                        ELSE {"s1"}),
           scriptConnect \in (IF Asked(p0, "legacyConnect")
                              THEN ScriptUris \cup {Undefined} ELSE {"x1"}),
           script \in (IF /\ Asked(p0, "scriptObject")
                          /\ fault # <<"scriptObject", "script">>
                       THEN BackendScripts \cup {"", Undefined}
                       ELSE {Undefined}) :
          LET e == [q0 EXCEPT !.connect = connect, !.scriptConnect = scriptConnect,
                              !.script = script] IN
          \E r \in {generateScript(World, e, config, object)} :
          /\ Commit(r.w)
          /\ last' = [NoOperation EXCEPT !.op = "generateScript", !.conn = conn,
                                         !.db = db, !.object = object,
                                         !.config = config, !.generated = r.ret,
                                         !.script = script,
                                         !.pre = Before, !.trace = Trace(r.w)]
          /\ UNCHANGED history

\* QuickPickProvider.handleSelection for an object picked by the user
HandleSelection(conns, dbs, objects, configs, editors) ==
    \E object \in objects, config \in configs, conn \in conns, db \in dbs,
       editor \in editors :
      \E fault \in {NoFault} \cup
                   handleSelection(World, [Eager(conn, db) EXCEPT !.script = ScriptWithTop],
                                   config, object, editor).w.asked :
        LET q0 == [Quiet(conn, db, fault) EXCEPT !.connect = "s1",
                                                 !.scriptConnect = "x1"] IN
        \E p0 \in {handleSelection(World, q0, config, object, editor)} :
        \E connect \in (IF Asked(p0, "connect") THEN Uris \cup {Undefined}
                        ELSE {"s1"}),
           scriptConnect \in (IF Asked(p0, "legacyConnect")
                              THEN ScriptUris \cup {Undefined} ELSE {"x1"}),
           script \in (IF /\ Asked(p0, "scriptObject")
                          /\ fault # <<"scriptObject", "script">>
                       THEN BackendScripts \cup {"", Undefined}
                       ELSE {Undefined}) :
          LET e == [q0 EXCEPT !.connect = connect, !.scriptConnect = scriptConnect,
                              !.script = script] IN
          \E r \in {handleSelection(World, e, config, object, editor)} :
          /\ Commit(r.w)
          /\ last' = [NoOperation EXCEPT !.op = "handleSelection", !.conn = conn,
                                         !.db = db, !.object = object,
                                         !.config = config, !.editor = editor,
                                         !.inserted = r.ret, !.script = script,
                                         !.pre = Before, !.trace = Trace(r.w)]
          /\ UNCHANGED history

(* The SELECT scripts a backend may answer, put together from what may     *)
(* stand before the keyword, the keyword, the space after it, a TOP clause *)
(* and the rest of the statement.                                          *)
ScriptLeads == {<<>>, <<" ">>, <<"-", "-", " ", "T", "\n">>}
ScriptKeywords == {<<"S", "E", "L", "E", "C", "T">>,
                   <<"s", "e", "l", "e", "c", "t">>}
ScriptGaps == {<<>>, <<" ">>, <<"\n">>}
ScriptTops ==
    {<<>>,
     <<"T", "O", "P", " ", "5", "0", " ">>,
     <<"T", "O", "P", " ", "(", "5", "0", ")", " ">>,
     <<"T", "O", "P", "(", "5", "0", ")", " ">>,
     <<"T", "O", "P", "(", "5", "0", ")">>,
     <<"t", "o", "p", " ", "(", " ", "5", "0", " ", ")", " ">>}
ScriptBodies ==
    {<<"*", " ", "F", "R", "O", "M", " ", "[", "d", "b", "o", "]", ".",
       "[", "T", "]">>,
     <<"*", " ", "F", "R", "O", "M", " ", "(", "S", "E", "L", "E", "C",
       "T", " ", "T", "O", "P", " ", "5", " ", "*", " ", "F", "R", "O",
       "M", " ", "[", "d", "b", "o", "]", ".", "[", "T", "]", ")", " ", "x">>,
     <<"1", " ", "x", " ", "F", "R", "O", "M", " ", "[", "d", "b", "o", "]",
       ".", "[", "T", "]">>}

SelectScripts ==
    {lead \o keyword \o gap \o top \o body :
        lead \in ScriptLeads, keyword \in ScriptKeywords, gap \in ScriptGaps,
        top \in ScriptTops, body \in ScriptBodies}

RowLimits == {1000, 7}

\* ensureTopClause(script, rowLimit) applied to a script of the backend
EnsureTopClause(scripts, rowLimits) ==
    \E script \in scripts, rowLimit \in rowLimits :
        /\ last' = [NoOperation EXCEPT !.op = "ensureTopClause",
                                       !.input = script, !.rowLimit = rowLimit,
                                       !.generated =
                                           Text(ensureTopClause(script, rowLimit)),
                                       !.pre = Before]
        /\ UNCHANGED <<cachedConnectionUri, cachedConnectionId, cachedDatabase,
                       scriptingUriCache, objectsCache, columnCache, history,
                       calls, stale>>

\* ConnectionService.getActiveDatabase called on its own
GetActiveDatabase(conns, dbs) ==
    \E conn \in conns, db \in dbs :
      \E fault \in {NoFault, <<"activeDatabase", "database">>} :
        \E r \in {getActiveDatabase(World, Quiet(conn, db, fault), "database")} :
          /\ Commit(r.w)
          /\ last' = [NoOperation EXCEPT !.op = "getActiveDatabase", !.conn = conn,
                                         !.db = db, !.database = r.ret,
                                         !.pre = Before, !.trace = Trace(r.w)]
          /\ UNCHANGED history

(* ConnectionService.executeQueryWithDatabase called on its own, with a    *)
(* database named by the caller or none; without one and without an active *)
(* database it is executeQuery.                                            *)
ExecuteQueryWithDatabase(conns, dbs, databases, results) ==
    \E conn \in conns, db \in dbs, database \in databases :
      \E fault \in {NoFault} \cup
                   executeQueryWithDatabase(World, Eager(conn, db), "query", "QUERY",
                                            database, <<RowTable>>).w.asked :
        \E p0 \in {executeQueryWithDatabase(World, Quiet(conn, db, fault), "query",
                                            "QUERY", database, <<>>)} :
        \E connect \in (IF Asked(p0, "connect") THEN Uris \cup {Undefined}
                        ELSE {Undefined}) :
          LET q1 == [Quiet(conn, db, fault) EXCEPT !.connect = connect] IN
          \E p1 \in {executeQueryWithDatabase(World, q1, "query", "QUERY", database,
                                              <<>>)} :
          \E rows \in (IF Asked(p1, "executeSimpleQuery") THEN results ELSE {<<>>}) :
          \E r \in {executeQueryWithDatabase(World, q1, "query", "QUERY", database,
                                             rows)} :
          /\ Commit(r.w)
          /\ last' = [NoOperation EXCEPT !.op = "executeQueryWithDatabase",
                                         !.conn = conn, !.db = db,
                                         !.database = database, !.ret = r.ret,
                                         !.pre = Before, !.trace = Trace(r.w)]
          /\ UNCHANGED history

\* the caller takes the result
Return ==
    /\ last.op # "none"
    /\ last' = NoOperation
    /\ UNCHANGED <<cachedConnectionUri, cachedConnectionId, cachedDatabase,
                   scriptingUriCache, objectsCache, columnCache, history,
                   calls, stale>>

Idle == last.op = "none"

(***************************************************************************)
(* Invocations of search that overlap.  An invocation runs from one await  *)
(* to the next without interruption; at an await whose collaborator has    *)
(* not answered another invocation may run, and the active connection and  *)
(* database are what they are when the collaborator is asked.              *)
(***************************************************************************)
\* the fields of the services after a step of an invocation
CommitFields(w) ==
    /\ cachedConnectionUri' = w.cachedConnectionUri
    /\ cachedConnectionId' = w.cachedConnectionId
    /\ cachedDatabase' = w.cachedDatabase
    /\ scriptingUriCache' = w.scriptingUriCache
    /\ objectsCache' = w.objectsCache
    /\ columnCache' = w.columnCache

\* the session connectionSharing.connect gives for a connection
SessionOf(conn) == IF conn = "c1" THEN "s1" ELSE "s2"

\* the collaborators' answers while conn and db are active
Answers(conn, db) ==
    [Quiet(conn, db, NoFault) EXCEPT !.connect = SessionOf(conn),
                                     !.rows = <<RowTable>>,
                                     !.colRows = <<ColRowTable>>]

\* search is called and resolves its session
BeginSearch(i, conns, dbs, forces, enrichs) ==
    /\ calls[i].pc = "idle"
    /\ \E conn \in conns, db \in dbs, force \in forces, enrich \in enrichs :
         \E r \in {getCurrentConnectionUri(World, Answers(conn, db), "search")} :
           /\ CommitFields(r.w)
           /\ calls' = [calls EXCEPT ![i] =
                          [NoCall EXCEPT !.pc = IF r.ret = Undefined
                                                THEN "done" ELSE "resolved",
                                         !.force = force, !.enrich = enrich,
                                         !.uri = r.ret]]
    /\ UNCHANGED <<last, history, stale>>

\* the active database is resolved, the caches are cleared if asked for, and
\* getOrFetchObjects looks the key up
LookUp(i, dbs) ==
    /\ calls[i].pc = "resolved"
    /\ \E db \in dbs :
         \E d \in {getActiveDatabase(World, Answers("c1", db), "search")} :
         \E cacheKey \in {IF d.ret # Undefined THEN d.ret ELSE "default"} :
         \E w \in {IF calls[i].force
                    THEN ClearCaches(d.w, calls[i].uri, cacheKey) ELSE d.w} :
           /\ CommitFields(w)
           /\ calls' = [j \in Invocations |->
                          IF j = i
                          THEN [calls[i] EXCEPT
                                  !.database = d.ret, !.key = cacheKey,
                                  !.pc = IF Cached(w, cacheKey)
                                         THEN "listed" ELSE "missed",
                                  !.objects = IF Cached(w, cacheKey)
                                              THEN w.objectsCache[cacheKey]
                                              ELSE <<>>]
                          ELSE IF calls[i].force /\ calls[j].pc = "fetching"
                          THEN [calls[j] EXCEPT !.early = TRUE]
                          ELSE calls[j]]
           /\ stale' = IF calls[i].force THEN {} ELSE stale
    /\ UNCHANGED <<last, history>>

\* after the miss executeQueryWithDatabase resolves the session and hands
\* the catalog query to the backend
SendCatalogQuery(i, conns, dbs) ==
    /\ calls[i].pc = "missed"
    /\ \E conn \in conns, db \in dbs :
         \E q \in {executeQueryWithDatabase([World EXCEPT !.fetches = @ + 1],
                                            Answers(conn, db), "fetch",
                                            "ALL_OBJECTS_QUERY", calls[i].database,
                                            <<RowTable>>)} :
           /\ CommitFields(q.w)
           /\ calls' = [calls EXCEPT ![i] =
                          IF q.w.sent # <<>>
                          THEN [@ EXCEPT !.pc = "fetching"]
                          ELSE [@ EXCEPT !.pc = "listed", !.fetched = TRUE]]
    /\ UNCHANGED <<last, history, stale>>

\* the backend answers the catalog query and getOrFetchObjects goes on
ReceiveCatalog(i, catalogs) ==
    /\ calls[i].pc = "fetching"
    /\ \E rows \in catalogs :
         \E g \in {StoreFetched([ret |-> rows, w |-> World], calls[i].key,
                                calls[i].database)} :
           /\ CommitFields(g.w)
           /\ calls' = [calls EXCEPT ![i] =
                          [@ EXCEPT !.pc = "listed", !.fetched = TRUE,
                                    !.rows = rows, !.objects = g.ret]]
           /\ stale' = IF rows = <<>> THEN stale
                       ELSE IF calls[i].early THEN stale \cup {calls[i].key}
                       ELSE stale \ {calls[i].key}
    /\ UNCHANGED <<last, history>>

\* search filters by the empty term and enrichWithColumns looks the
\* session's column map up
Enrich(i) ==
    /\ calls[i].pc = "listed"
    /\ \E objects \in {filterByTerm(calls[i].objects, <<>>)} :
         calls' = [calls EXCEPT ![i] =
            IF ~calls[i].enrich \/ NothingToEnrich(objects)
            THEN [@ EXCEPT !.pc = "done", !.ret = objects]
            ELSE IF getCacheKey(calls[i].uri) \in DOMAIN columnCache
            THEN [@ EXCEPT !.pc = "done",
                           !.ret = MapWithColumns(
                                      World, objects,
                                      columnCache[getCacheKey(calls[i].uri)]).ret]
            ELSE [@ EXCEPT !.pc = "unmapped", !.objects = objects]]
    /\ UNCHANGED <<cachedConnectionUri, cachedConnectionId, cachedDatabase,
                   scriptingUriCache, objectsCache, columnCache, last, history,
                   stale>>

\* fetchColumns resolves database and session and hands the column query
\* to the backend
SendColumnQuery(i, conns, dbs) ==
    /\ calls[i].pc = "unmapped"
    /\ \E conn \in conns, db \in dbs :
         \E f \in {fetchColumns(World, Answers(conn, db))} :
           /\ CommitFields([f.w EXCEPT !.columnCache = columnCache])
           /\ calls' = [calls EXCEPT ![i] =
                          IF f.w.sent # <<>>
                          THEN [@ EXCEPT !.pc = "columns",
                                         !.colSent = [uri |-> f.w.sent[1].uri,
                                                      use |-> f.w.sent[1].query.use]]
                          ELSE [@ EXCEPT !.pc = "done", !.ret = calls[i].objects]]
    /\ UNCHANGED <<last, history, stale>>

\* the backend answers the column query: fetchColumns builds the map and
\* enrichWithColumns stores it under the session search resolved
ReceiveColumns(i, results) ==
    /\ calls[i].pc = "columns"
    /\ \E colRows \in results :
         IF colRows = <<>>
         THEN /\ calls' = [calls EXCEPT ![i] =
                             [@ EXCEPT !.pc = "done", !.ret = calls[i].objects]]
              /\ UNCHANGED columnCache
         ELSE /\ columnCache' = MapSet(columnCache, getCacheKey(calls[i].uri),
                                       BuildColumnMap(colRows, EmptyMap))
              /\ calls' = [calls EXCEPT ![i] =
                             [@ EXCEPT !.pc = "done", !.colStored = TRUE,
                                       !.ret = MapWithColumns(
                                                  World, calls[i].objects,
                                                  BuildColumnMap(colRows, EmptyMap)).ret]]
    /\ UNCHANGED <<cachedConnectionUri, cachedConnectionId, cachedDatabase,
                   scriptingUriCache, objectsCache, last, history, stale>>

\* the caller takes the result of the invocation
TakeResult(i) ==
    /\ calls[i].pc = "done"
    /\ calls' = [calls EXCEPT ![i] = NoCall]
    /\ UNCHANGED <<cachedConnectionUri, cachedConnectionId, cachedDatabase,
                   scriptingUriCache, objectsCache, columnCache, last, history,
                   stale>>

SearchSites == {"search", "fetch", "columns"}
SearchFaults == {"getActiveEditorConnectionId", "getActiveDatabase", "connect",
                 "activeDatabase", "executeSimpleQuery", "getConfiguration"}
                    \X SearchSites
QueryFaults == {"executeSimpleQuery"} \X SearchSites

(***************************************************************************)
(* Spec: the search commands, one call at a time, each result taken by the *)
(* caller before the next call.                                            *)
(***************************************************************************)
SearchCommand ==
    Idle /\ Search({"c1", Undefined}, {"db1", Undefined}, {<<>>}, Catalogs,
                   SearchFaults)

Next == SearchCommand \/ Return

Spec == Init /\ [][Next]_vars

(***************************************************************************)
(* SpecRefresh: the search commands and script requests.                   *)
(***************************************************************************)
RefreshSearch ==
    Idle /\ Search({"c1", Undefined}, {"db1", Undefined}, {<<>>}, Catalogs,
                   QueryFaults)

ScriptRequest == Idle /\ ScriptObject({"c1", Undefined}, {"db1", Undefined}, {0})

NextRefresh == RefreshSearch \/ ScriptRequest \/ Return

SpecRefresh == Init /\ [][NextRefresh]_vars

(***************************************************************************)
(* SpecFilter: searches with a term over catalogs of tables, views and     *)
(* procedures, on one connection.                                          *)
(***************************************************************************)
RowView == [SchemaName |-> <<"B", "a">>, ObjectName |-> <<"c">>,
            ObjectType |-> "VIEW"]
FilterCatalogs == SeqsUpTo({RowTable, RowProc, RowView}, MaxFilterRows)

FilterSearch == Idle /\ Search({"c1"}, {"db1"}, Terms, FilterCatalogs, {})

NextFilter == FilterSearch \/ Return

SpecFilter == Init /\ [][NextFilter]_vars

(***************************************************************************)
(* SpecConn: session resolutions and script requests following each other, *)
(* last being the previous operation.                                      *)
(***************************************************************************)
Resolve == ResolveActiveSession(ConnIds \cup {Undefined}, {"db1", Undefined})

ConnScript == ScriptObject(ConnIds \cup {Undefined}, {"db1", Undefined}, {0})

NextConn == Resolve \/ ConnScript

SpecConn == Init /\ [][NextConn]_vars

(***************************************************************************)
(* SpecBoundary: the public operations of ConnectionService, each with any *)
(* one of its collaborator calls throwing.                                 *)
(***************************************************************************)
BoundaryResolve ==
    Idle /\ ResolveActiveSession({"c1", Undefined}, {"db1", Undefined})

BoundaryDatabase == Idle /\ GetActiveDatabase({"c1"}, {"db1", Undefined})

BoundaryQuery ==
    Idle /\ ExecuteQueryWithDatabase({"c1", Undefined}, {"db1", Undefined},
                                     {"db2", Undefined}, Catalogs)

BoundaryScript ==
    Idle /\ ScriptObject({"c1", Undefined}, {"db1", Undefined}, ScriptOperations)

NextBoundary ==
    BoundaryResolve \/ BoundaryDatabase \/ BoundaryQuery \/ BoundaryScript \/ Return

SpecBoundary == Init /\ [][NextBoundary]_vars

(***************************************************************************)
(* SpecMemo: session resolutions, searches and script requests under two   *)
(* active databases, each result taken by the caller before the next call. *)
(***************************************************************************)
MemoResolve == Idle /\ ResolveActiveSession({"c1", Undefined}, {"db1", Undefined})

MemoSearch ==
    Idle /\ Search({"c1", Undefined}, {"db1"}, {<<>>}, {<<RowProc>>}, QueryFaults)

MemoScript == Idle /\ ScriptObject({"c1", Undefined}, Dbs \cup {Undefined}, {0})

NextMemo == MemoResolve \/ MemoSearch \/ MemoScript \/ Return

SpecMemo == Init /\ [][NextMemo]_vars

(***************************************************************************)
(* SpecColumns: searches following each other, last being the previous     *)
(* search, over a catalog of one table or one procedure.                   *)
(***************************************************************************)
ColumnSearch ==
    Search({"c1", Undefined}, {"db1"}, {<<>>}, {<<RowTable>>, <<RowProc>>},
           {"executeSimpleQuery", "getActiveEditorConnectionId"} \X {"columns"})

NextColumns == ColumnSearch

SpecColumns == Init /\ [][NextColumns]_vars

(***************************************************************************)
(* SpecInvalidate: searches over a catalog of one table, session           *)
(* resolutions, script requests and direct clears of the column cache.     *)
(***************************************************************************)
InvalidateSearch ==
    Idle /\ Search({"c1", Undefined}, {"db1", Undefined}, {<<>>}, {<<RowTable>>}, {})

InvalidateColumns == Idle /\ ClearColumnCache(Uris \cup {Undefined})

InvalidateResolve ==
    Idle /\ ResolveActiveSession({"c1", Undefined}, {"db1", Undefined})

InvalidateScript == Idle /\ ScriptObject({"c1", Undefined}, {"db1"}, {0})

NextInvalidate ==
    \/ InvalidateSearch
    \/ InvalidateColumns
    \/ InvalidateResolve
    \/ InvalidateScript
    \/ Return

SpecInvalidate == Init /\ [][NextInvalidate]_vars

(***************************************************************************)
(* SpecAtomic: searches over catalogs of up to MaxFilterRows rows, with    *)
(* and without a database, any call of the bulk fetch failing.             *)
(***************************************************************************)
FetchFaults ==
    {"getActiveEditorConnectionId", "connect", "activeDatabase",
     "executeSimpleQuery"} \X {"fetch"}

AtomicSearch ==
    Idle /\ Search({"c1"}, {"db1", Undefined}, {<<>>},
                   SeqsUpTo(CatalogRows, MaxFilterRows), FetchFaults)

NextAtomic == AtomicSearch \/ Return

SpecAtomic == Init /\ [][NextAtomic]_vars

(***************************************************************************)
(* SpecDatabase: searches with the active database db1, a database named   *)
(* default, or none, the database lookups failing or not.                  *)
(***************************************************************************)
DatabaseSearch ==
    Idle /\ Search({"c1"}, {"db1", "default", Undefined}, {<<>>}, {<<RowTable>>},
                   {"activeDatabase"} \X {"search", "fetch"})

NextDatabase == DatabaseSearch \/ Return

SpecDatabase == Init /\ [][NextDatabase]_vars

(***************************************************************************)
(* SpecScript: scripts generated for the objects of the picker, one        *)
(* request at a time.                                                      *)
(***************************************************************************)
ScriptGeneration ==
    Idle /\ GenerateScript({"c1", Undefined}, {"db1", Undefined}, ScriptedObjects,
                           Configurations)

\* a selection in the picker, in a window with a blank document or none
Selection ==
    Idle /\ HandleSelection({"c1", Undefined}, {"db1"}, ScriptedObjects,
                            Configurations, {"none", "empty"})

NextScript == ScriptGeneration \/ Selection \/ Return

SpecScript == Init /\ [][NextScript]_vars

(***************************************************************************)
(* SpecOverlap: two invocations of search, with and without refresh, for   *)
(* one connection and one database, suspended and resumed in any order.    *)
(***************************************************************************)
OverlapCatalogs == {<<>>, <<RowTable>>, <<RowProc>>, <<RowTable, RowProc>>}

OverlapBegin ==
    \E i \in Invocations : BeginSearch(i, {"c1"}, {"db1"}, BOOLEAN, {FALSE})

OverlapLookUp == \E i \in Invocations : LookUp(i, {"db1"})

OverlapSend == \E i \in Invocations : SendCatalogQuery(i, {"c1"}, {"db1"})

OverlapReceive == \E i \in Invocations : ReceiveCatalog(i, OverlapCatalogs)

OverlapEnrich == \E i \in Invocations : Enrich(i)

OverlapTake == \E i \in Invocations : TakeResult(i)

NextOverlap ==
    \/ OverlapBegin
    \/ OverlapLookUp
    \/ OverlapSend
    \/ OverlapReceive
    \/ OverlapEnrich
    \/ OverlapTake

SpecOverlap == Init /\ [][NextOverlap]_vars

(***************************************************************************)
(* SpecSwitch: one invocation of search with enrichment, while the active  *)
(* connection and database may change between its awaits.                  *)
(***************************************************************************)
SwitchBegin == BeginSearch("first", {"c1", "c2"}, Dbs, {FALSE}, {TRUE})

SwitchLookUp == LookUp("first", Dbs)

SwitchSend == SendCatalogQuery("first", {"c1", "c2"}, Dbs)

SwitchReceive == ReceiveCatalog("first", {<<RowTable>>, <<RowProc>>})

SwitchEnrich == Enrich("first")

SwitchSendColumns == SendColumnQuery("first", {"c1", "c2"}, Dbs)

SwitchReceiveColumns == ReceiveColumns("first", {<<>>, <<ColRowTable>>})

SwitchTake == TakeResult("first")

NextSwitch ==
    \/ SwitchBegin
    \/ SwitchLookUp
    \/ SwitchSend
    \/ SwitchReceive
    \/ SwitchEnrich
    \/ SwitchSendColumns
    \/ SwitchReceiveColumns
    \/ SwitchTake

SpecSwitch == Init /\ [][NextSwitch]_vars

(***************************************************************************)
(* SpecTypes: searches over catalogs whose rows carry every type code      *)
(* mapObjectType has a case for and codes it has none for.                 *)
(***************************************************************************)
RowScalar == [SchemaName |-> DefaultSchema, ObjectName |-> <<"c">>,
              ObjectType |-> "SQL_SCALAR_FUNCTION"]
RowInline == [SchemaName |-> DefaultSchema, ObjectName |-> <<"a">>,
              ObjectType |-> "SQL_INLINE_TABLE_VALUED_FUNCTION"]
RowSynonym == [SchemaName |-> DefaultSchema, ObjectName |-> <<"b">>,
               ObjectType |-> "SYNONYM"]
RowLowerView == [SchemaName |-> <<"s">>, ObjectName |-> <<"c">>,
                 ObjectType |-> "view"]

TypedRows == {RowTable, RowProc, RowView, RowScalar, RowInline, RowSynonym,
              RowLowerView}

TypedSearch ==
    Idle /\ Search({"c1"}, {"db1"}, {<<>>},
                   SeqsUpTo(TypedRows, MaxFilterRows),
                   {<<"executeSimpleQuery", "fetch">>})

NextTypes == TypedSearch \/ Return

SpecTypes == Init /\ [][NextTypes]_vars

(***************************************************************************)
(* SpecTop: ensureTopClause applied to the SELECT scripts, one after the   *)
(* other.                                                                  *)
(***************************************************************************)
RewriteScript == Idle /\ EnsureTopClause(SelectScripts, RowLimits)

NextTop == RewriteScript \/ Return

SpecTop == Init /\ [][NextTop]_vars

(***************************************************************************)
(* Properties.                                                             *)
(***************************************************************************)
\* the last operation was a search that reached getOrFetchObjects
Fetching == last.op = "search" /\ last.key # Undefined

C2_StoredIsReturnedVerbatim ==
    (Fetching /\ ~last.force /\ last.key \in DOMAIN last.pre.objectsCache)
        => /\ last.catalog = last.pre.objectsCache[last.key]
           /\ last.trace.fetches = 0
           /\ objectsCache = last.pre.objectsCache

C2_Witness ==
    /\ Fetching /\ ~last.force
    /\ last.key \in DOMAIN last.pre.objectsCache
    /\ last.catalog # <<>>
    /\ last.ret = last.catalog

\* C3: after the catalog cache is cleared by a search with forceRefresh, the
\* next getOrFetch for any key that was cached before the clear makes the
\* bulk fetch again, whether it is the key of the refreshing search or not.
C3_ClearedKeysAreRefetched ==
    (Fetching /\ \/ last.force /\ last.key \in DOMAIN last.pre.objectsCache
                 \/ ~last.force /\ last.pre.history[last.key] = "cleared")
        => last.trace.fetches = 1

C3_Witness ==
    /\ Fetching /\ ~last.force
    /\ last.pre.history[last.key] = "cleared"
    /\ last.trace.fetches = 1
    /\ last.catalog # <<>>

\* the fields that identify an object
Identity(o) == [name |-> o.name, schema |-> o.schema, type |-> o.type,
                database |-> o.database]

\* t occurs in s, letter case ignored
ContainsIgnoringCase(s, t) ==
    \E i \in 0..(Len(s) - Len(t)) :
        \A j \in 1..Len(t) : LowerChar(s[i + j]) = LowerChar(t[j])

\* the positions of the catalog whose object matches the term
Kept(catalog, term) ==
    { i \in 1..Len(catalog) :
        \/ ContainsIgnoringCase(catalog[i].name, term)
        \/ ContainsIgnoringCase(catalog[i].schema, term) }

\* result holds the objects at the positions P of catalog, in catalog order
IsSelection(result, catalog, P) ==
    /\ Len(result) = Cardinality(P)
    /\ \E f \in [1..Len(result) -> P] :
          /\ \A a, b \in 1..Len(result) : a < b => f[a] < f[b]
          /\ \A a \in 1..Len(result) : Identity(result[a]) = Identity(catalog[f[a]])

ExampleObject(schema, name) ==
    [name |-> name, schema |-> schema, type |-> "Table", database |-> "db1",
     columns |-> Undefined, definition |-> Undefined]
Customers == ExampleObject(<<"d", "b", "o">>, <<"C", "u", "s", "t", "o", "m", "e", "r", "s">>)
Orders == ExampleObject(<<"d", "b", "o">>, <<"O", "r", "d", "e", "r", "s">>)
CustomerNotes == ExampleObject(<<"s", "a", "l", "e", "s">>, <<"C", "u", "s", "t", "o", "m", "e", "r", "N", "o", "t", "e", "s">>)

\* C4: a search whose term is non-empty after trimming returns exactly the
\* catalog objects whose name or schema contains the term, letter case
\* ignored, in catalog order; a search whose term is empty or blank returns
\* the whole catalog; "cust" over [dbo.Customers, dbo.Orders,
\* sales.CustomerNotes] gives [dbo.Customers, sales.CustomerNotes].
C4_SearchFilters ==
    /\ (Fetching /\ last.trace.errors = 0)
          => IF \E i \in 1..Len(last.term) : last.term[i] \notin WhiteSpace
             THEN IsSelection(last.ret, last.catalog, Kept(last.catalog, last.term))
             ELSE IsSelection(last.ret, last.catalog, 1..Len(last.catalog))
    /\ filterByTerm(<<Customers, Orders, CustomerNotes>>, <<"c", "u", "s", "t">>)
          = <<Customers, CustomerNotes>>

C4_Witness ==
    /\ Fetching
    /\ Len(last.catalog) = 2
    /\ Len(last.ret) = 1
    /\ Identity(last.ret[1]) = Identity(last.catalog[2])
    /\ ~ContainsIgnoringCase(last.ret[1].name, last.term)
    /\ \E i \in 1..Len(last.term) : last.term[i] \in UpperChars

\* the collaborator calls of a session resolution
ResolutionCalls == {"getActiveEditorConnectionId", "getActiveDatabase", "connect"}

\* the failures after which search has nothing to return: its own session
\* resolution, the catalog query or the session resolution made for it, and
\* the configuration read
EmptyingFaults ==
    (ResolutionCalls \X {"search", "fetch"})
        \cup {<<"executeSimpleQuery", "fetch">>, <<"getConfiguration", "search">>}

\* the failures of the column fetch: the column query or the session
\* resolution made for it
ColumnFaults == (ResolutionCalls \cup {"executeSimpleQuery"}) \X {"columns"}

\* what search does when no active session exists
NoSessionIsQuiet ==
    (last.op = "search" /\ last.uri = Undefined)
        => /\ last.trace.noConn >= 1
           /\ last.ret = <<>>
           /\ last.trace.fetches = 0 /\ last.trace.colFetches = 0
           /\ last.trace.sent = <<>>
           /\ objectsCache = last.pre.objectsCache
           /\ columnCache = last.pre.columnCache

\* C5 (as stated): search propagates no exception, returns an empty sequence
\* whatever step failed, and with no active session signals 'no connection'
\* and returns empty without fetching and without changing the catalog cache
\* or the column cache, forceRefresh or not.
C5_AnyFailureYieldsEmpty ==
    /\ last.op = "search" => ~last.exc
    /\ (last.op = "search" /\ last.trace.thrown # NoFault) => last.ret = <<>>
    /\ NoSessionIsQuiet

\* C5 (amended): search propagates no exception. It returns an empty sequence
\* when its session resolution, the catalog fetch or the configuration read
\* fails; when the database resolution fails it goes on under the key
\* "default"; when the column fetch fails it returns the filtered objects
\* without columns. With no active session it signals 'no connection' and
\* returns empty without fetching and without changing the catalog cache or
\* the column cache, forceRefresh or not.
C5_SearchNeverThrows ==
    /\ last.op = "search" => ~last.exc
    /\ (last.op = "search" /\ last.trace.thrown \in EmptyingFaults)
          => last.ret = <<>>
    /\ (last.op = "search" /\ last.trace.thrown = <<"activeDatabase", "search">>)
          => last.key = "default"
    /\ (last.op = "search" /\ last.trace.thrown \in ColumnFaults)
          => /\ last.ret = filterByTerm(last.catalog, last.term)
             /\ last.uri \notin DOMAIN columnCache
    /\ NoSessionIsQuiet

C5_Witness ==
    /\ last.op = "search" /\ last.force
    /\ last.uri = Undefined
    /\ last.trace.thrown \in ResolutionCalls \X {"search"}
    /\ DOMAIN last.pre.objectsCache # {}
    /\ DOMAIN last.pre.columnCache # {}

\* C6: a search with forceRefresh under session s removes every catalog entry
\* and the column map of s only: the column maps of other sessions stay as
\* they were, and since the clear comes before the catalog is obtained, what
\* the catalog cache and the column map of s hold afterwards, and the objects
\* returned, come from fetches made by this search.
C6_RefreshClearsBeforeFetching ==
    (last.op = "search" /\ last.force /\ last.uri # Undefined)
        => /\ \A k \in DOMAIN objectsCache :
                k = last.key /\ objectsCache[k] = last.catalog
           /\ last.trace.fetches = 1
           /\ \A u \in (DOMAIN last.pre.columnCache \cup DOMAIN columnCache) \ {last.uri} :
                /\ u \in DOMAIN last.pre.columnCache
                /\ u \in DOMAIN columnCache
                /\ columnCache[u] = last.pre.columnCache[u]
           /\ last.uri \in DOMAIN columnCache => last.trace.colFetches = 1
           /\ \A i \in 1..Len(last.ret) :
                \E j \in 1..Len(last.catalog) :
                    Identity(last.ret[i]) = Identity(last.catalog[j])

C6_Witness ==
    /\ last.op = "search" /\ last.force /\ last.uri # Undefined
    /\ DOMAIN last.pre.objectsCache \ {last.key} # {}
    /\ last.uri \in DOMAIN last.pre.columnCache
    /\ DOMAIN last.pre.columnCache \ {last.uri} # {}
    /\ last.uri \notin DOMAIN columnCache
    /\ last.ret # <<>>

\* C7 (as stated): a search with forceRefresh invalidates the connection
\* context: the scripting bindings are all dropped and the primary session
\* binding is not reused.
C7_RefreshInvalidatesConnection ==
    (last.op = "search" /\ last.force)
        => /\ scriptingUriCache = EmptyMap
           /\ last.trace.reused = 0

\* C7 (amended): a search with forceRefresh clears the catalog cache and the
\* active session's column map only. It leaves the scripting bindings and the
\* primary session binding as they were, unless one of its session
\* resolutions finds no active connection or has a collaborator call throw,
\* the only events that drop them.
C7_RefreshKeepsConnection ==
    (last.op = "search" /\ last.force)
        => /\ last.trace.cleared = 0
                => /\ scriptingUriCache = last.pre.scriptingUriCache
                   /\ last.trace.connects = 0
                        => /\ cachedConnectionUri = last.pre.cachedConnectionUri
                           /\ cachedConnectionId = last.pre.cachedConnectionId
                           /\ cachedDatabase = last.pre.cachedDatabase
           /\ last.trace.cleared > 0
                => \/ last.conn = Undefined
                   \/ last.trace.thrown[1] \in ResolutionCalls

C7_Witness ==
    /\ last.op = "search" /\ last.force
    /\ last.uri # Undefined
    /\ last.trace.reused >= 1
    /\ DOMAIN last.pre.scriptingUriCache # {}
    /\ scriptingUriCache = last.pre.scriptingUriCache
    /\ DOMAIN last.pre.objectsCache # {}
    /\ cachedConnectionUri = last.pre.cachedConnectionUri

\* the session resolution a reached the reuse test: the provider reported a
\* connection and neither the connection identity nor the database name
\* failed to be read
ObservedPair(a) ==
    /\ a.op = "resolve"
    /\ a.conn # Undefined
    /\ a.trace.thrown[1] \notin {"getActiveEditorConnectionId", "getActiveDatabase"}

\* two session resolutions, one straight after the other, that observed the
\* same (connectionIdentity, activeDatabase) pair
SamePairTwice(a, b) ==
    /\ ObservedPair(a) /\ ObservedPair(b)
    /\ a.conn = b.conn /\ a.db = b.db

\* C8 (as stated): two consecutive session resolutions that observe the same
\* (connectionIdentity, activeDatabase) pair return the same sessionId, and
\* connect is invoked at most once over the two calls.
C8_SamePairSameSession ==
    [][SamePairTwice(last, last')
          => /\ last'.uri = last.uri
             /\ last.trace.connects + last'.trace.connects <= 1]_vars

\* C8 (amended): of two consecutive session resolutions that observe the same
\* (connectionIdentity, activeDatabase) pair, when the first returned a
\* sessionId the second returns the same sessionId without invoking connect,
\* so connect is invoked at most once over the two calls; when the first
\* returned none, because connect threw or returned nothing, the second
\* invokes connect again.
C8_SamePairReusesEstablishedSession ==
    [][SamePairTwice(last, last')
          => /\ last.uri # Undefined
                  => /\ last'.uri = last.uri
                     /\ last'.trace.connects = 0
                     /\ last'.trace.reused = 1
                     /\ last.trace.connects <= 1
             /\ last.uri = Undefined => last'.trace.connects = 1]_vars

C8_Witness ==
    /\ ObservedPair(last)
    /\ last.uri # Undefined
    /\ last.trace.reused = 1 /\ last.trace.connects = 0
    /\ last.pre.cachedConnectionUri = last.uri
    /\ last.pre.cachedConnectionId = last.conn
    /\ last.pre.cachedDatabase = last.db
    /\ last.db = Undefined

\* C9: a session resolution that observes a (connectionIdentity,
\* activeDatabase) pair other than the cached one invokes connect and
\* discards the cached binding: afterwards the primary session cache is
\* empty or holds the session that connect returned for the observed pair,
\* so that the old sessionId is returned again only if connect returns it.
C9_ChangedPairDiscardsBinding ==
    (/\ ObservedPair(last)
     /\ last.pre.cachedConnectionUri # Undefined
     /\ \/ last.pre.cachedConnectionId # last.conn
        \/ last.pre.cachedDatabase # last.db)
        => /\ last.trace.connects = 1
           /\ \/ cachedConnectionUri = Undefined
              \/ /\ cachedConnectionUri = last.uri
                 /\ cachedConnectionId = last.conn
                 /\ cachedDatabase = last.db

\* C10: a session resolution for which the provider reports no active
\* connection returns none and leaves the primary session cache empty, and a
\* session resolution that starts from an empty primary session cache returns
\* a sessionId only by invoking connect.
C10_NoConnectionDiscardsBinding ==
    /\ (last.op = "resolve" /\ last.conn = Undefined /\ last.trace.thrown = NoFault)
          => /\ last.uri = Undefined
             /\ cachedConnectionUri = Undefined
             /\ cachedConnectionId = Undefined
             /\ cachedDatabase = Undefined
             /\ last.trace.connects = 0
    /\ (last.op = "resolve" /\ last.pre.cachedConnectionUri = Undefined
                            /\ last.uri # Undefined)
          => /\ last.trace.connects = 1
             /\ last.trace.reused = 0

C10_Witness ==
    /\ last.op = "resolve" /\ last.conn = Undefined
    /\ last.trace.thrown = NoFault
    /\ last.pre.cachedConnectionUri # Undefined
    /\ cachedConnectionUri = Undefined

\* the public operations of ConnectionService
ConnectionOperations ==
    {"resolve", "getActiveDatabase", "executeQueryWithDatabase", "scriptObject"}

\* the last operation returned none, or no rows
ReturnedNone ==
    /\ last.uri = Undefined
    /\ last.database = Undefined \/ last.op # "getActiveDatabase"
    /\ last.ret = <<>>
    /\ last.script = Undefined

\* C11 (as stated): no exception crosses the boundary of ConnectionService:
\* whichever collaborator call throws, its public operations return none
\* (or no rows) instead of throwing.
C11_ThrowYieldsNone ==
    (last.op \in ConnectionOperations /\ last.trace.thrown # NoFault)
        => ~last.exc /\ ReturnedNone

\* C11 (amended): no exception crosses the boundary of ConnectionService.
\* Whichever collaborator call throws, its public operations return without
\* throwing, and they return none (or no rows) unless the call that threw is
\* the getActiveDatabase made by the service's own getActiveDatabase inside
\* executeQueryWithDatabase or scriptObject: then the database is taken as
\* absent, the query is sent without a USE prefix, the script is asked for
\* over the primary session, and the operation returns what that gives.
C11_NoThrowCrossesBoundary ==
    last.op \in ConnectionOperations
        => /\ ~last.exc
           /\ (last.trace.thrown # NoFault /\ last.trace.thrown[1] # "activeDatabase")
                => ReturnedNone
           /\ last.trace.thrown[1] = "activeDatabase"
                => /\ last.op # "resolve"
                   /\ last.op = "getActiveDatabase" => ReturnedNone
                   /\ \A i \in 1..Len(last.trace.sent) :
                        last.trace.sent[i].query.use = Undefined
                   /\ last.trace.legacyConnects = 0
                   /\ \A i \in 1..Len(last.trace.scripted) :
                        last.trace.scripted[i].uri = cachedConnectionUri

C11_Witness ==
    /\ last.op = "scriptObject"
    /\ last.trace.thrown \in {"getConnectionString", "legacyConnect", "scriptObject"}
                                \X {"script"}
    /\ last.script = Undefined
    /\ ~last.exc

\* the scripting bindings an operation found are all still there
MemoKept ==
    \A d \in DOMAIN last.pre.scriptingUriCache :
        /\ d \in DOMAIN scriptingUriCache
        /\ scriptingUriCache[d] = last.pre.scriptingUriCache[d]

\* the last operation was a script request that found a scripting binding
\* for the active database
MemoHit ==
    /\ last.op = "scriptObject"
    /\ last.db # Undefined
    /\ last.trace.thrown # <<"activeDatabase", "script">>
    /\ last.db \in DOMAIN last.pre.scriptingUriCache

\* C12 (as stated): the scripting binding memoized for a database is returned
\* to every later request for it without a new connect, and no session
\* resolution, search or script request removes a binding.
C12_MemoNeverDroppedImplicitly ==
    /\ MemoHit => last.trace.legacyConnects = 0 /\ last.trace.connects = 0
    /\ last.op # "none" => MemoKept

\* C12 (amended): while a scripting binding for a database is present, every
\* request for that database is answered with it, without a new connect and
\* without a session resolution.  The bindings are dropped, all together,
\* by clearConnectionCache, which runs as a side effect of any session
\* resolution (in resolveActiveSession, search or a script request) that
\* finds no active connection or has a collaborator call throw; no other
\* step removes or replaces a binding.
C12_MemoDroppedOnlyByConnectionClear ==
    /\ MemoHit
          => /\ last.trace.legacyConnects = 0
             /\ last.trace.connects = 0 /\ last.trace.reused = 0
             /\ \A i \in 1..Len(last.trace.scripted) :
                  last.trace.scripted[i].uri = last.pre.scriptingUriCache[last.db]
             /\ scriptingUriCache = last.pre.scriptingUriCache
    /\ (last.op # "none" /\ last.trace.cleared = 0) => MemoKept
    /\ (last.op # "none" /\ last.trace.cleared > 0)
          => /\ scriptingUriCache = EmptyMap
             /\ last.conn = Undefined \/ last.trace.thrown[1] \in ResolutionCalls

C12_Witness ==
    /\ MemoHit
    /\ DOMAIN last.pre.scriptingUriCache = Dbs
    /\ last.conn = Undefined
    /\ last.script # Undefined

\* the last operation was a search that called enrichWithColumns
Enriching ==
    /\ Fetching
    /\ last.enrich
    /\ last.trace.thrown # <<"getConfiguration", "search">>

\* the objects the last search handed to enrichWithColumns
EnrichInput == filterByTerm(last.catalog, last.term)

\* the column cache as the last search left it before enriching
ColumnCacheAfterClear ==
    IF last.force
    THEN [u \in DOMAIN last.pre.columnCache \ {last.uri} |-> last.pre.columnCache[u]]
    ELSE last.pre.columnCache

\* C13: enrichWithColumns on objects none of which is a Table or a View (no
\* objects at all included) returns its input unchanged, sends no column
\* query, and neither reads nor changes the column cache.
C13_EnrichWithoutTablesIsNoOp ==
    (Enriching /\ \A i \in 1..Len(EnrichInput) : EnrichInput[i].type \notin {"Table", "View"})
        => /\ last.ret = EnrichInput
           /\ last.trace.colFetches = 0
           /\ last.trace.colLookups = 0
           /\ \A i \in 1..Len(last.trace.sent) :
                last.trace.sent[i].query.q # "COLUMNS_QUERY"
           /\ columnCache = ColumnCacheAfterClear

C13_Witness ==
    /\ Enriching
    /\ EnrichInput # <<>>
    /\ \A i \in 1..Len(EnrichInput) : EnrichInput[i].type = "StoredProcedure"
    /\ last.ret = EnrichInput
    /\ last.uri \notin DOMAIN columnCache

\* the last search handed a Table or a View to enrichWithColumns
EnrichingTables ==
    /\ Enriching
    /\ \E i \in 1..Len(EnrichInput) : EnrichInput[i].type \in {"Table", "View"}

\* the last search asked for the columns and got an error or no rows
ColumnFetchGaveNothing ==
    /\ EnrichingTables
    /\ last.trace.colFetches = 1
    /\ last.colRows = <<>>

\* C14: a column fetch that fails or returns no rows stores no map for the
\* session and the objects come back unchanged; the next enrichment of a
\* Table or View for that session sends the column query again; after a
\* fetch that returned rows the map is stored, and the next enrichment for
\* that session sends no column query unless the map was cleared first.
C14_ColumnMapCachedOnlyOnSuccess ==
    [][/\ ColumnFetchGaveNothing'
            => /\ last'.uri \notin DOMAIN columnCache'
               /\ last'.ret = EnrichInput'
       /\ (EnrichingTables' /\ last'.trace.colFetches = 1 /\ last'.colRows # <<>>)
            => /\ last'.uri \in DOMAIN columnCache'
               /\ columnCache'[last'.uri] = BuildColumnMap(last'.colRows, EmptyMap)
       /\ (ColumnFetchGaveNothing /\ EnrichingTables' /\ last'.uri = last.uri)
            => /\ last'.trace.colFetches = 1
               /\ last'.trace.thrown = NoFault
                    => \E i \in 1..Len(last'.trace.sent) :
                         last'.trace.sent[i].query.q = "COLUMNS_QUERY"
       /\ (/\ EnrichingTables /\ last.uri \in DOMAIN columnCache
           /\ EnrichingTables' /\ last'.uri = last.uri /\ ~last'.force)
            => /\ last'.trace.colFetches = 0
               /\ \A i \in 1..Len(last'.trace.sent) :
                    last'.trace.sent[i].query.q # "COLUMNS_QUERY"
               /\ columnCache' = columnCache
      ]_vars

\* a later search over the cached catalog asked for the columns again and
\* again got nothing: no map is stored and the objects are returned as given
C14_Witness ==
    /\ ColumnFetchGaveNothing
    /\ ~last.force
    /\ last.key \in DOMAIN last.pre.objectsCache
    /\ last.pre.cachedConnectionUri = last.uri
    /\ last.uri \notin DOMAIN columnCache
    /\ last.ret = EnrichInput

\* the keys a map had before the last operation and has no more
Removed(before, after) == DOMAIN before \ DOMAIN after

\* C15: clearCache(uri) removes the column map of that session only,
\* clearCache() removes every column map, and neither touches the catalog
\* cache; a catalog entry disappears only in a search with clearCache set,
\* and a column map only in clearCache (called directly or by such a
\* search); clearing the connection cache removes neither.
C15_IndependentInvalidation ==
    /\ last.op = "clearCache"
         => /\ objectsCache = last.pre.objectsCache
            /\ last.uri # Undefined
                 => /\ Removed(last.pre.columnCache, columnCache)
                         = DOMAIN last.pre.columnCache \cap {last.uri}
                    /\ \A u \in DOMAIN columnCache :
                         columnCache[u] = last.pre.columnCache[u]
            /\ last.uri = Undefined => columnCache = EmptyMap
    /\ Removed(last.pre.objectsCache, objectsCache) # {}
         => last.op = "search" /\ last.force
    /\ Removed(last.pre.columnCache, columnCache) # {}
         => \/ last.op = "clearCache"
            \/ /\ last.op = "search" /\ last.force
               /\ Removed(last.pre.columnCache, columnCache) = {last.uri}
    /\ (last.trace.cleared > 0 /\ ~last.force)
         => /\ Removed(last.pre.objectsCache, objectsCache) = {}
            /\ Removed(last.pre.columnCache, columnCache) = {}

\* one session's map was cleared and the other session's map and the catalog
\* entry stayed
C15_Witness ==
    /\ last.op = "clearCache"
    /\ last.uri \in DOMAIN last.pre.columnCache
    /\ DOMAIN columnCache # {}
    /\ last.uri \notin DOMAIN columnCache
    /\ objectsCache # EmptyMap

\* C16: enrichment never changes an object of the catalog cache: whatever
\* searches ran, with enrichment on or off, no cached object has a columns
\* value, and an object returned with columns is a copy: the cache holds the
\* same object without columns, not the returned one.
C16_CachedObjectsNeverEnriched ==
    /\ \A k \in DOMAIN objectsCache :
         \A i \in 1..Len(objectsCache[k]) : objectsCache[k][i].columns = Undefined
    /\ Enriching
         => \A i \in 1..Len(last.ret) :
              last.ret[i].columns # Undefined
                => /\ \A j \in 1..Len(objectsCache[last.key]) :
                        objectsCache[last.key][j] # last.ret[i]
                   /\ \E j \in 1..Len(objectsCache[last.key]) :
                        objectsCache[last.key][j]
                            = [last.ret[i] EXCEPT !.columns = Undefined]

\* a search over a cached catalog returned a table with its columns
C16_Witness ==
    /\ Enriching
    /\ last.trace.fetches = 0
    /\ \E i \in 1..Len(last.ret) : last.ret[i].columns # Undefined
    /\ last.key \in DOMAIN objectsCache

\* the column map of the session of the last search, as enrichment used it
SessionColumnMap ==
    IF last.uri \in DOMAIN columnCache THEN columnCache[last.uri] ELSE EmptyMap

\* C17: enrichWithColumns keeps length and order, and every object keeps its
\* name, schema, type and database; an object has a columns value on return
\* only if it is a Table or View whose "schema.name" key is in the session's
\* column map (and then exactly when the mapped string is not empty, the
\* value being that string); every other object is returned as it was given.
C17_EnrichPreservesObjects ==
    Enriching
        => /\ Len(last.ret) = Len(EnrichInput)
           /\ \A i \in 1..Len(EnrichInput) :
                LET in == EnrichInput[i]
                    out == last.ret[i]
                    key == ColumnKey(in.schema, in.name)
                    gains == /\ in.type \in {"Table", "View"}
                             /\ key \in DOMAIN SessionColumnMap
                             /\ SessionColumnMap[key] # ""
                IN  /\ Identity(out) = Identity(in)
                    /\ gains => out = [in EXCEPT !.columns = SessionColumnMap[key]]
                    /\ ~gains => out = in /\ out.columns = Undefined

\* a table with mapped columns returned after a view the map does not know
C17_Witness ==
    /\ Enriching
    /\ Len(EnrichInput) = 2
    /\ EnrichInput[1].type = "View"
    /\ EnrichInput[2].type = "Table"
    /\ last.ret[1] = EnrichInput[1]
    /\ last.ret[2].columns = "Id, Name"
    /\ last.ret[2].name = EnrichInput[2].name

\* the database a catalog entry was fetched for
DatabaseOfKey(k) == IF k = "default" THEN Undefined ELSE k

\* what getOrFetchObjects makes of the rows of one bulk fetch
Transformed(rows, database) ==
    [i \in 1..Len(rows) |-> transformResult(rows[i], database)]

\* the last search missed the cache and made its bulk fetch
BulkFetched == Fetching /\ last.trace.fetches = 1

\* C18: an entry of the catalog cache is written in one step: the sequence
\* stored for a key is the whole transformed result of the one bulk fetch
\* that stored it; a fetch that fails (a timeout reaches the code as a
\* failed call) or returns nothing stores nothing and the key stays absent;
\* entries of other keys are not touched by the fetch.
C18_CatalogEntriesAtomic ==
    /\ \A k \in DOMAIN objectsCache :
         \E rows \in SeqsUpTo(CatalogRows, MaxFilterRows) \ {<<>>} :
            objectsCache[k] = Transformed(rows, DatabaseOfKey(k))
    /\ (BulkFetched /\ last.rows # <<>>)
         => /\ last.key \in DOMAIN objectsCache
            /\ objectsCache[last.key] = Transformed(last.rows, DatabaseOfKey(last.key))
            /\ Len(objectsCache[last.key]) = Len(last.rows)
            /\ last.catalog = objectsCache[last.key]
    /\ (BulkFetched /\ last.rows = <<>>)
         => /\ last.key \notin DOMAIN objectsCache
            /\ last.catalog = <<>>
            /\ last.ret = <<>>
    /\ Fetching
         => \A k \in DOMAIN objectsCache \ {last.key} :
              /\ k \in DOMAIN last.pre.objectsCache
              /\ objectsCache[k] = last.pre.objectsCache[k]
    /\ (Fetching /\ last.trace.fetches = 0)
         => /\ ~last.force
            /\ objectsCache = last.pre.objectsCache

\* a fetch of two rows failed at the backend while another key's entry was
\* stored: nothing was stored for the key
C18_Witness ==
    /\ BulkFetched
    /\ last.trace.thrown = <<"executeSimpleQuery", "fetch">>
    /\ last.key \notin DOMAIN objectsCache
    /\ \E k \in DOMAIN objectsCache : Len(objectsCache[k]) = 2

\* the active database as search resolved it (a failing lookup gives none)
ResolvedDatabase ==
    IF last.trace.thrown = <<"activeDatabase", "search">> THEN Undefined ELSE last.db

\* C19: the catalog cache is per database: a search whose active database
\* resolved to D uses key D, every object it returns carries database D, a
\* bulk fetch it makes runs against D, and what it returns is the entry of
\* key D; with no active database the key is "default".
C19_CatalogPerDatabase ==
    Fetching
        => /\ ResolvedDatabase = Undefined => last.key = "default"
           /\ ResolvedDatabase # Undefined
                => /\ last.key = ResolvedDatabase
                   /\ \A i \in 1..Len(last.ret) :
                        last.ret[i].database = ResolvedDatabase
                   /\ \A i \in 1..Len(last.trace.sent) :
                        last.trace.sent[i].query.q = "ALL_OBJECTS_QUERY"
                            => last.trace.sent[i].query.use = ResolvedDatabase
                   /\ last.ret # <<>>
                        => /\ last.key \in DOMAIN objectsCache
                           /\ \A i \in 1..Len(last.ret) :
                                [last.ret[i] EXCEPT !.columns = Undefined]
                                    = objectsCache[last.key][i]

\* what holds of the code: the same for every database not named "default"
C19_PerDatabaseUnlessNamedDefault ==
    ResolvedDatabase # "default" => C19_CatalogPerDatabase

\* a search for the database named "default" answered from the entry stored
\* by a search that had no active database
C19_Witness ==
    /\ Fetching
    /\ ResolvedDatabase = "default"
    /\ last.trace.fetches = 0
    /\ last.ret # <<>>
    /\ last.ret[1].database = Undefined

\* the action the configuration of the last request gives the object's type
ConfiguredAction ==
    IF last.object.type = "Table" THEN last.config.tableAction
    ELSE IF last.object.type = "View" THEN last.config.viewAction
    ELSE IF last.object.type = "StoredProcedure"
    THEN last.config.storedProcedureAction
    ELSE IF last.object.type \in {"ScalarValuedFunction", "TableValuedFunction"}
    THEN last.config.functionAction
    ELSE "Select"

ScriptingActions == {"Select", "Create", "Delete", "Execute", "Alter"}

\* C20: generateScript runs the one strategy of the action configured for
\* the object's type: for Select, Create, Delete, Execute, Alter it calls
\* scriptObject exactly once, with operation 0, 1, 4, 5, 6 and the object's
\* own schema, name and type; for Insert Name it makes no call; and no call
\* of another operation reaches the backend (at most one does, for the same
\* operation and object).
C20_OneStrategyOneScriptingCall ==
    last.op = "generateScript"
        => /\ ConfiguredAction \in ScriptingActions
                => last.trace.requests
                     = <<[operation |-> ScriptOperation[ConfiguredAction],
                          schema |-> last.object.schema,
                          name |-> last.object.name,
                          type |-> last.object.type]>>
           /\ ConfiguredAction \in ScriptingActions
                => ScriptOperation[ConfiguredAction]
                     = (CASE ConfiguredAction = "Select" -> 0
                          [] ConfiguredAction = "Create" -> 1
                          [] ConfiguredAction = "Delete" -> 4
                          [] ConfiguredAction = "Execute" -> 5
                          [] ConfiguredAction = "Alter" -> 6)
           /\ ConfiguredAction = "Insert Name"
                => /\ last.trace.requests = <<>>
                   /\ last.trace.scripted = <<>>
                   /\ last.generated = Text(getQualifiedName(last.object))
           /\ Len(last.trace.scripted) <= 1
           /\ \A i \in 1..Len(last.trace.scripted) :
                /\ last.trace.scripted[i].operation = ScriptOperation[ConfiguredAction]
                /\ last.trace.scripted[i].schema = last.object.schema
                /\ last.trace.scripted[i].name = last.object.name

\* a function configured for Create: one call of operation 1 with the
\* function's own type, which reached the backend and gave the script
C20_Witness ==
    /\ last.op = "generateScript"
    /\ last.object.type = "ScalarValuedFunction"
    /\ ConfiguredAction = "Create"
    /\ last.config.tableAction = "Delete"
    /\ Len(last.trace.requests) = 1
    /\ last.trace.requests[1].operation = 1
    /\ last.trace.requests[1].type = "ScalarValuedFunction"
    /\ Len(last.trace.scripted) = 1
    /\ last.script = ScriptOfProcedure
    /\ last.generated = Text(Characters(ScriptOfProcedure))

\* the services' fields are as the last operation found them
FieldsUntouched ==
    /\ cachedConnectionUri = last.pre.cachedConnectionUri
    /\ cachedConnectionId = last.pre.cachedConnectionId
    /\ cachedDatabase = last.pre.cachedDatabase
    /\ scriptingUriCache = last.pre.scriptingUriCache
    /\ objectsCache = last.pre.objectsCache
    /\ columnCache = last.pre.columnCache

\* the last operation called no collaborator of the connection layer
NoBackendCall ==
    /\ last.trace.requests = <<>>
    /\ last.trace.scripted = <<>>
    /\ last.trace.sent = <<>>
    /\ last.trace.connects = 0
    /\ last.trace.reused = 0
    /\ last.trace.cleared = 0
    /\ last.trace.legacyConnects = 0
    /\ last.trace.noConn = 0
    /\ last.trace.thrown = NoFault

\* C21: with the action Insert Name configured for the object's type,
\* generateScript returns exactly [schema].[name] and the picker inserts
\* exactly that text; neither calls the scripting collaborator or resolves
\* a session, and the services' fields stay as they were.
C21_InsertNameCallsNothing ==
    (last.op \in {"generateScript", "handleSelection"}
        /\ ConfiguredAction = "Insert Name")
        => /\ NoBackendCall
           /\ FieldsUntouched
           /\ last.op = "generateScript"
                => /\ last.generated.defined
                   /\ last.generated.text
                        = <<"[">> \o last.object.schema \o <<"]", ".", "[">>
                            \o last.object.name \o <<"]">>
           /\ (last.op = "handleSelection" /\ last.editor # "none")
                => /\ last.inserted.where = "cursor"
                   /\ last.inserted.text.text
                        = <<"[">> \o last.object.schema \o <<"]", ".", "[">>
                            \o last.object.name \o <<"]">>
           /\ (last.op = "handleSelection" /\ last.editor = "none")
                => last.inserted.where = "nowhere"

\* the name of the table dbo.Orders generated while no connection is active
\* and a session is cached
C21_Witness ==
    /\ last.op = "generateScript"
    /\ ConfiguredAction = "Insert Name"
    /\ last.conn = Undefined
    /\ cachedConnectionUri # Undefined
    /\ last.generated.text
         = <<"[", "d", "b", "o", "]", ".", "[", "O", "r", "d", "e", "r", "s", "]">>

\* the script begins with the keyword SELECT: whitespace or the select list
\* follows the word
BeginsWithSelect(s) ==
    /\ WordAt(s, 1, <<"S", "E", "L", "E", "C", "T">>)
    /\ Len(s) >= 7
    /\ s[7] \in RegexSpace \cup {"*"}

\* the position after a TOP clause that follows the leading SELECT of s at
\* once, 0 if none stands there
TopAfterSelect(s) ==
    LET Clause(b) ==
            IF WordAt(s, b, <<"T", "O", "P">>)
            THEN TopValueEnd(s, SkipClass(s, b + 3, RegexSpace))
            ELSE 0
    IN  Clause(SkipClass(s, 7, RegexSpace))

\* what follows the leading SELECT and its TOP clause
AfterSelectAndTop(s) ==
    LET From(a) == SubSeq(s, SkipClass(s, a, RegexSpace), Len(s))
    IN  IF TopAfterSelect(s) # 0 THEN From(TopAfterSelect(s)) ELSE From(7)

\* no digit follows at once the leftmost SELECT TOP n of s, if it has one
TopClauseSeparated(s) ==
    LET Separated(a) == a > Len(s) \/ s[a] \notin RegexDigit
    IN  SelectTopStart(s) # 0 => Separated(SelectTopEnd(s, SelectTopStart(s)))

\* TOP rowLimit is the clause that follows the leading SELECT of s
LimitedTo(s, rowLimit) ==
    /\ TopAfterSelect(s) # 0
    /\ SubSeq(s, SkipClass(s, 7, RegexSpace), TopAfterSelect(s) - 1)
         = TopClause(rowLimit)

\* C22: for every row limit and every script that begins with SELECT, the
\* rewritten script has TOP <limit> right after that leading SELECT, in
\* place of a TOP n or TOP (n) that stood there or injected otherwise, and
\* is the given script everywhere else.
C22_TopAfterLeadingSelect ==
    (last.op = "ensureTopClause" /\ BeginsWithSelect(last.input))
        => /\ SubSeq(last.generated.text, 1, 6) = SubSeq(last.input, 1, 6)
           /\ LimitedTo(last.generated.text, last.rowLimit)
           /\ AfterSelectAndTop(last.generated.text)
                = AfterSelectAndTop(last.input)

\* the limit of a nested SELECT TOP rewritten instead of the leading one
C22_Witness ==
    /\ last.op = "ensureTopClause"
    /\ last.rowLimit = 1000
    /\ last.input
         = <<"S", "E", "L", "E", "C", "T", " ", "*", " ", "F", "R", "O",
             "M", " ", "(", "S", "E", "L", "E", "C", "T", " ", "T", "O",
             "P", " ", "5", " ", "*", " ", "F", "R", "O", "M", " ", "[",
             "d", "b", "o", "]", ".", "[", "T", "]", ")", " ", "x">>
    /\ last.generated.text
         = <<"S", "E", "L", "E", "C", "T", " ", "*", " ", "F", "R", "O",
             "M", " ", "(", "S", "E", "L", "E", "C", "T", " ", "T", "O",
             "P", " ", "1", "0", "0", "0", " ", "*", " ", "F", "R", "O",
             "M", " ", "[", "d", "b", "o", "]", ".", "[", "T", "]", ")",
             " ", "x">>

\* the two scripts of the documentation's example, limited to 1000 rows
C22_Examples ==
    (/\ last.op = "ensureTopClause"
     /\ last.rowLimit = 1000
     /\ last.input \in {<<"S", "E", "L", "E", "C", "T", " ", "T", "O", "P",
                          " ", "(", "5", "0", ")", " ", "*", " ", "F", "R",
                          "O", "M", " ", "[", "d", "b", "o", "]", ".", "[",
                          "T", "]">>,
                        <<"S", "E", "L", "E", "C", "T", " ", "*", " ", "F",
                          "R", "O", "M", " ", "[", "d", "b", "o", "]", ".",
                          "[", "T", "]">>})
        => last.generated.text
            = <<"S", "E", "L", "E", "C", "T", " ", "T", "O", "P", " ", "1",
                "0", "0", "0", " ", "*", " ", "F", "R", "O", "M", " ", "[",
                "d", "b", "o", "]", ".", "[", "T", "]">>

\* the rewrite does as C22 says for a script that begins with SELECT and
\* whitespace and has no SELECT TOP n further on
C22_RewriteOfPlainScripts ==
    (/\ last.op = "ensureTopClause"
     /\ BeginsWithSelect(last.input)
     /\ last.input[7] \in RegexSpace
     /\ TopClauseSeparated(last.input)
     /\ \A i \in 2..Len(last.input) : SelectTopEnd(last.input, i) = 0)
        => /\ SubSeq(last.generated.text, 1, 6) = SubSeq(last.input, 1, 6)
           /\ LimitedTo(last.generated.text, last.rowLimit)
           /\ AfterSelectAndTop(last.generated.text)
                = AfterSelectAndTop(last.input)

\* word stands somewhere in s
Contains(s, word) ==
    \E i \in 1..(Len(s) - Len(word) + 1) : SubSeq(s, i, i + Len(word) - 1) = word

\* C23: with the action Select configured for the object's type, the
\* generated script has a TOP clause with the configured row limit, whatever
\* the backend returned and also when it returned nothing or failed.
C23_SelectAlwaysLimited ==
    (last.op = "generateScript" /\ ConfiguredAction = "Select")
        => /\ last.generated.defined
           /\ Contains(last.generated.text,
                       <<"T", "O", "P", " ">>
                           \o NumberToString(last.config.scriptRowLimit))

\* the backend's script with a leading comment comes back as it was
C23_Witness ==
    /\ last.op = "generateScript"
    /\ ConfiguredAction = "Select"
    /\ last.script = ScriptWithComment
    /\ last.generated = Text(Characters(ScriptWithComment))

\* no script from the backend: a SELECT without a limit
C23_WitnessNoScript ==
    /\ last.op = "generateScript"
    /\ ConfiguredAction = "Select"
    /\ last.object.name = <<"O", "r", "d", "e", "r", "s">>
    /\ last.trace.scripted # <<>>
    /\ last.script = Undefined
    /\ last.generated.text
         = <<"-", "-", " ", "C", "o", "u", "l", "d", " ", "n", "o", "t",
             " ", "g", "e", "n", "e", "r", "a", "t", "e", " ", "S", "E",
             "L", "E", "C", "T", " ", "s", "c", "r", "i", "p", "t", " ",
             "f", "o", "r", " ", "[", "d", "b", "o", "]", ".", "[", "O",
             "r", "d", "e", "r", "s", "]", "\n", "S", "E", "L", "E", "C",
             "T", " ", "*", " ", "F", "R", "O", "M", " ", "[", "d", "b",
             "o", "]", ".", "[", "O", "r", "d", "e", "r", "s", "]", ";",
             "\n">>

\* the Select scripts that do carry the limit: the backend's script began
\* with SELECT and whitespace
C23_LimitedWhenScriptBeginsWithSelect ==
    (/\ last.op = "generateScript"
     /\ ConfiguredAction = "Select"
     /\ last.script \in {ScriptWithTop, ScriptWithoutTop}
     /\ last.trace.scripted # <<>>
     /\ last.trace.thrown = NoFault)
        => last.generated
            = Text(<<"S", "E", "L", "E", "C", "T", " ", "T", "O", "P", " ",
                     "1", "0", "0", "0", " ", "*", " ", "F", "R", "O", "M",
                     " ", "[", "d", "b", "o", "]", ".", "[", "T", "]">>)

\* s without its whitespace
RECURSIVE WithoutSpace(_)
WithoutSpace(s) ==
    IF s = <<>> THEN <<>>
    ELSE IF Head(s) \in RegexSpace THEN WithoutSpace(Tail(s))
    ELSE <<Head(s)>> \o WithoutSpace(Tail(s))

\* the scripting call of the last operation gave no script: it never reached
\* the backend, failed there, or the backend answered undefined or ''
ScriptingGaveNothing ==
    \/ last.trace.scripted = <<>>
    \/ ~Truthy(last.script)

\* C24: when the scripting call of the Select action fails or gives an empty
\* or undefined script, the generated script is
\* SELECT TOP <limit> * FROM [schema].[name]; (compared without whitespace).
C24_SelectFallback ==
    (last.op = "generateScript" /\ ConfiguredAction = "Select"
        /\ ScriptingGaveNothing)
        => /\ last.generated.defined
           /\ WithoutSpace(last.generated.text)
                = WithoutSpace(<<"S", "E", "L", "E", "C", "T", " ", "T", "O", "P", " ">>
                               \o NumberToString(last.config.scriptRowLimit)
                               \o <<" ", "*", " ", "F", "R", "O", "M", " ", "[">>
                               \o last.object.schema \o <<"]", ".", "[">>
                               \o last.object.name \o <<"]", ";">>)

\* the backend answered '' for the table s.Ab: a comment and a SELECT with no
\* limit
C24_Witness ==
    /\ last.op = "generateScript"
    /\ ConfiguredAction = "Select"
    /\ last.trace.scripted # <<>>
    /\ last.script = ""
    /\ last.generated.text
         = <<"-", "-", " ", "C", "o", "u", "l", "d", " ", "n", "o", "t",
             " ", "g", "e", "n", "e", "r", "a", "t", "e", " ", "S", "E",
             "L", "E", "C", "T", " ", "s", "c", "r", "i", "p", "t", " ",
             "f", "o", "r", " ", "[", "s", "]", ".", "[", "A", "b", "]",
             "\n", "S", "E", "L", "E", "C", "T", " ", "*", " ", "F", "R",
             "O", "M", " ", "[", "s", "]", ".", "[", "A", "b", "]", ";",
             "\n">>

\* what the Select action does return when the scripting call gave nothing
C24_SelectFallbackOfTheCode ==
    (last.op = "generateScript" /\ ConfiguredAction = "Select"
        /\ ScriptingGaveNothing)
        => last.generated.text
            = <<"-", "-", " ", "C", "o", "u", "l", "d", " ", "n", "o", "t", " ",
                "g", "e", "n", "e", "r", "a", "t", "e", " ", "S", "E", "L", "E",
                "C", "T", " ", "s", "c", "r", "i", "p", "t", " ", "f", "o", "r",
                " ", "[">> \o last.object.schema \o <<"]", ".", "[">>
                \o last.object.name
                \o <<"]", "\n", "S", "E", "L", "E", "C", "T", " ", "*", " ", "F",
                     "R", "O", "M", " ", "[">> \o last.object.schema
                \o <<"]", ".", "[">> \o last.object.name \o <<"]", ";", "\n">>

\* C25: whenever the scripting call of the Delete action gives no script
\* (the backend throws, no session is there, or nothing is returned), the
\* generated script is exactly the template
\* DELETE FROM [schema].[name] / WHERE /   -- Specify condition;
C25_DeleteFallback ==
    (last.op = "generateScript" /\ ConfiguredAction = "Delete"
        /\ ScriptingGaveNothing)
        => /\ last.generated.defined
           /\ last.generated.text
                = <<"D", "E", "L", "E", "T", "E", " ", "F", "R", "O", "M", " ", "[">>
                    \o last.object.schema \o <<"]", ".", "[">>
                    \o last.object.name
                    \o <<"]", "\n", "W", "H", "E", "R", "E", "\n", " ", " ",
                         "-", "-", " ", "S", "p", "e", "c", "i", "f", "y", " ",
                         "c", "o", "n", "d", "i", "t", "i", "o", "n", ";", "\n">>

\* Delete of dbo.Orders with no session to script over: a comment only
C25_Witness ==
    /\ last.op = "generateScript"
    /\ ConfiguredAction = "Delete"
    /\ last.trace.scripted = <<>>
    /\ last.generated.text
         = <<"-", "-", " ", "C", "o", "u", "l", "d", " ", "n", "o", "t",
             " ", "g", "e", "n", "e", "r", "a", "t", "e", " ", "D", "E",
             "L", "E", "T", "E", " ", "s", "c", "r", "i", "p", "t", " ",
             "f", "o", "r", " ", "[", "d", "b", "o", "]", ".", "[", "O",
             "r", "d", "e", "r", "s", "]", "\n">>

\* Delete of dbo.Orders while the backend call throws: the same comment
C25_WitnessThrown ==
    /\ last.op = "generateScript"
    /\ ConfiguredAction = "Delete"
    /\ last.trace.thrown = <<"scriptObject", "script">>
    /\ last.generated.text
         = <<"-", "-", " ", "C", "o", "u", "l", "d", " ", "n", "o", "t",
             " ", "g", "e", "n", "e", "r", "a", "t", "e", " ", "D", "E",
             "L", "E", "T", "E", " ", "s", "c", "r", "i", "p", "t", " ",
             "f", "o", "r", " ", "[", "d", "b", "o", "]", ".", "[", "O",
             "r", "d", "e", "r", "s", "]", "\n">>

\* [schema].[name] of the object of the last operation
BracketedName ==
    <<"[">> \o last.object.schema \o <<"]", ".", "[">> \o last.object.name
        \o <<"]">>

\* the one text every scripting action gives for an object when its
\* scripting call gave no script
TextWithoutScript(action) ==
    CASE action = "Select" ->
            <<"-", "-", " ", "C", "o", "u", "l", "d", " ", "n", "o", "t",
              " ", "g", "e", "n", "e", "r", "a", "t", "e", " ", "S", "E",
              "L", "E", "C", "T", " ", "s", "c", "r", "i", "p", "t", " ",
              "f", "o", "r", " ">>
                \o BracketedName
                \o <<"\n", "S", "E", "L", "E", "C", "T", " ", "*", " ", "F", "R",
              "O", "M", " ">>
                \o BracketedName \o <<";", "\n">>
      [] action = "Create" ->
            <<"-", "-", " ", "C", "o", "u", "l", "d", " ", "n", "o", "t",
              " ", "g", "e", "n", "e", "r", "a", "t", "e", " ", "C", "R",
              "E", "A", "T", "E", " ", "s", "c", "r", "i", "p", "t", " ",
              "f", "o", "r", " ">>
                \o BracketedName \o <<"\n">>
      [] action = "Delete" ->
            <<"-", "-", " ", "C", "o", "u", "l", "d", " ", "n", "o", "t",
              " ", "g", "e", "n", "e", "r", "a", "t", "e", " ", "D", "E",
              "L", "E", "T", "E", " ", "s", "c", "r", "i", "p", "t", " ",
              "f", "o", "r", " ">>
                \o BracketedName \o <<"\n">>
      [] action = "Execute" ->
            <<"E", "X", "E", "C", " ">> \o BracketedName
                \o <<";", "\n", "-", "-", " ", "S", "p", "e", "c", "i", "f", "y",
              " ", "p", "a", "r", "a", "m", "e", "t", "e", "r", "s", " ",
              "i", "f", " ", "r", "e", "q", "u", "i", "r", "e", "d", "\n">>
      [] action = "Alter" ->
            <<"-", "-", " ", "C", "o", "u", "l", "d", " ", "n", "o", "t",
              " ", "g", "e", "n", "e", "r", "a", "t", "e", " ", "A", "L",
              "T", "E", "R", " ", "s", "c", "r", "i", "p", "t", " ", "f",
              "o", "r", " ">>
                \o BracketedName \o <<"\n">>

\* C26: each of the five scripting strategies gives the same script whether
\* the scripting call throws, returns undefined or returns '' (or never
\* reaches the backend): one text per action and object.
C26_ThrownAsEmpty ==
    (last.op = "generateScript" /\ ConfiguredAction \in ScriptingActions
        /\ ScriptingGaveNothing)
        => last.generated = Text(TextWithoutScript(ConfiguredAction))

\* the backend threw while scripting a Create: the text of the empty answer
C26_Witness ==
    /\ last.op = "generateScript"
    /\ ConfiguredAction = "Create"
    /\ last.trace.thrown = <<"scriptObject", "script">>
    /\ last.trace.scripted # <<>>
    /\ last.generated = Text(TextWithoutScript("Create"))

\* C27: with the action Execute, a scripting call that throws or gives
\* nothing yields EXEC [schema].[name]; followed by the comment to specify
\* parameters, and a script the backend returned is returned as it is.
C27_ExecuteFallback ==
    (last.op = "generateScript" /\ ConfiguredAction = "Execute")
        => /\ ScriptingGaveNothing
                => last.generated.text
                     = <<"E", "X", "E", "C", " ", "[">> \o last.object.schema
                         \o <<"]", ".", "[">> \o last.object.name
                         \o <<"]", ";", "\n", "-", "-", " ", "S", "p", "e",
                             "c", "i", "f", "y", " ", "p", "a", "r", "a",
                             "m", "e", "t", "e", "r", "s", " ", "i", "f",
                             " ", "r", "e", "q", "u", "i", "r", "e", "d",
                             "\n">>
           /\ ~ScriptingGaveNothing
                => last.generated.text = Characters(last.script)
           /\ last.generated.defined

\* the backend threw while scripting the procedure dbo.B
C27_Witness ==
    /\ last.op = "generateScript"
    /\ ConfiguredAction = "Execute"
    /\ last.object.type = "StoredProcedure"
    /\ last.trace.thrown = <<"scriptObject", "script">>
    /\ last.generated.text
         = <<"E", "X", "E", "C", " ", "[", "d", "b", "o", "]", ".", "[",
             "B", "]", ";", "\n", "-", "-", " ", "S", "p", "e", "c", "i",
             "f", "y", " ", "p", "a", "r", "a", "m", "e", "t", "e", "r",
             "s", " ", "i", "f", " ", "r", "e", "q", "u", "i", "r", "e",
             "d", "\n">>

\* s is one line of SQL comment: it starts with --, ends with its only line
\* break
CommentLine(s) ==
    /\ Len(s) >= 3
    /\ SubSeq(s, 1, 2) = <<"-", "-">>
    /\ s[Len(s)] = "\n"
    /\ \A i \in 1..(Len(s) - 1) : s[i] # "\n"

\* C28: for every object, each of the six actions and every outcome of the
\* backend, generateScript returns a string that is not empty; when the
\* scripting call of Create or Alter gave no script, the string is a SQL
\* comment that names [schema].[name].
C28_AlwaysAScript ==
    (last.op = "generateScript" /\ ConfiguredAction \in ObjectActions)
        => /\ last.generated.defined
           /\ last.generated.text # <<>>
           /\ (ConfiguredAction \in {"Create", "Alter"} /\ ScriptingGaveNothing)
                => /\ CommentLine(last.generated.text)
                   /\ Contains(last.generated.text, BracketedName)

\* Alter of the function dbo.c with no active connection and no session
C28_Witness ==
    /\ last.op = "generateScript"
    /\ ConfiguredAction = "Alter"
    /\ last.object.type = "ScalarValuedFunction"
    /\ last.conn = Undefined
    /\ last.trace.scripted = <<>>
    /\ last.generated.text
         = <<"-", "-", " ", "C", "o", "u", "l", "d", " ", "n", "o", "t",
             " ", "g", "e", "n", "e", "r", "a", "t", "e", " ", "A", "L",
             "T", "E", "R", " ", "s", "c", "r", "i", "p", "t", " ", "f",
             "o", "r", " ", "[", "d", "b", "o", "]", ".", "[", "c", "]",
             "\n">>

\* C29: the transformation of the fetched rows is total: a row whose type
\* code is not a recognized one becomes a Table (and is warned about) and
\* neither fails nor shortens the fetch; the stored sequence has one object
\* per fetched row, in row order, and every object's type is one of Table,
\* View, StoredProcedure, ScalarValuedFunction, TableValuedFunction.
C29_RowsTransformedTotally ==
    /\ (BulkFetched /\ last.trace.thrown = NoFault /\ last.rows # <<>>)
         => /\ ~last.exc
            /\ last.key \in DOMAIN objectsCache
            /\ Len(objectsCache[last.key]) = Len(last.rows)
            /\ last.catalog = objectsCache[last.key]
            /\ \A i \in 1..Len(last.rows) :
                 /\ objectsCache[last.key][i].name = last.rows[i].ObjectName
                 /\ last.rows[i].ObjectType
                        \notin {"TABLE", "USER_TABLE", "VIEW", "SQL_STORED_PROCEDURE",
                                "SQL_SCALAR_FUNCTION",
                                "SQL_INLINE_TABLE_VALUED_FUNCTION",
                                "SQL_TABLE_VALUED_FUNCTION"}
                      => objectsCache[last.key][i].type = "Table"
            /\ Len(last.trace.warned)
                 = Cardinality({i \in 1..Len(last.rows) :
                                  last.rows[i].ObjectType
                                     \in {"SYNONYM", "view"}})
    /\ \A k \in DOMAIN objectsCache :
         \A i \in 1..Len(objectsCache[k]) :
            objectsCache[k][i].type
               \in {"Table", "View", "StoredProcedure", "ScalarValuedFunction",
                    "TableValuedFunction"}

\* a synonym fetched before a view: two objects stored, the first a Table
C29_Witness ==
    /\ BulkFetched
    /\ last.rows = <<RowSynonym, RowView>>
    /\ last.trace.warned = <<"SYNONYM">>
    /\ Len(objectsCache[last.key]) = 2
    /\ objectsCache[last.key][1].type = "Table"
    /\ objectsCache[last.key][1].name = <<"b">>
    /\ objectsCache[last.key][2].type = "View"

\* C30: for no configuration does generateScript (or the picker through it)
\* run the Delete strategy on an object that is not a table or the Execute
\* strategy on one that is not a stored procedure.
C30_ActionsRestrictedByType ==
    last.op \in {"generateScript", "handleSelection"}
        => \A i \in 1..Len(last.trace.requests) :
              /\ last.trace.requests[i].operation = 4
                    => last.object.type = "Table"
              /\ last.trace.requests[i].operation = 5
                    => last.object.type = "StoredProcedure"

\* Execute configured for tables: the table dbo.Orders scripted with
\* operation 5 and given the EXEC template
C30_Witness ==
    /\ last.op = "generateScript"
    /\ last.object.type = "Table"
    /\ last.config.tableAction = "Execute"
    /\ last.trace.requests
         = <<[operation |-> 5, schema |-> last.object.schema,
              name |-> last.object.name, type |-> "Table"]>>
    /\ last.script = Undefined
    /\ last.generated.text
         = <<"E", "X", "E", "C", " ", "[", "d", "b", "o", "]", ".", "[", "O",
             "r", "d", "e", "r", "s", "]", ";", "\n", "-", "-", " ", "S", "p",
             "e", "c", "i", "f", "y", " ", "p", "a", "r", "a", "m", "e", "t",
             "e", "r", "s", " ", "i", "f", " ", "r", "e", "q", "u", "i", "r",
             "e", "d", "\n">>

\* Delete configured for stored procedures: the procedure dbo.B scripted
\* with operation 4
C30_WitnessDelete ==
    /\ last.op = "generateScript"
    /\ last.object.type = "StoredProcedure"
    /\ last.config.storedProcedureAction = "Delete"
    /\ last.trace.requests
         = <<[operation |-> 4, schema |-> last.object.schema,
              name |-> last.object.name, type |-> "StoredProcedure"]>>

\* the column queries the last operation handed to the backend
ColumnQueriesSent ==
    {i \in 1..Len(last.trace.sent) : last.trace.sent[i].query.q = "COLUMNS_QUERY"}

\* C31: one enrichment asks for the columns with at most one bulk query,
\* however many tables and views it is given, and with none when the
\* session's column map is cached; no query other than the two bulk queries
\* is ever sent, so none is made per object.
C31_OneBulkColumnQuery ==
    last.op = "search"
        => /\ last.trace.colLookups <= 1
           /\ last.trace.colFetches <= 1
           /\ Cardinality(ColumnQueriesSent) <= last.trace.colFetches
           /\ \A i \in 1..Len(last.trace.sent) :
                last.trace.sent[i].query.q \in {"ALL_OBJECTS_QUERY", "COLUMNS_QUERY"}
           /\ Len(last.trace.sent) <= 2
           /\ (Enriching /\ ~last.force /\ last.uri \in DOMAIN last.pre.columnCache)
                => /\ last.trace.colFetches = 0
                   /\ ColumnQueriesSent = {}
           /\ ~Enriching => last.trace.colFetches = 0

\* a table and a view enriched with one column query
C31_Witness ==
    /\ Enriching
    /\ Len(EnrichInput) = 2
    /\ \A i \in 1..2 : EnrichInput[i].type \in {"Table", "View"}
    /\ EnrichInput[1] # EnrichInput[2]
    /\ last.trace.colFetches = 1
    /\ Cardinality(ColumnQueriesSent) = 1

\* a table and a view enriched from the cached map with no query at all
C31_WitnessCached ==
    /\ Enriching
    /\ Len(EnrichInput) = 2
    /\ \A i \in 1..2 : EnrichInput[i].type \in {"Table", "View"}
    /\ last.uri \in DOMAIN last.pre.columnCache
    /\ last.trace.colLookups = 1
    /\ last.trace.sent = <<>>

\* the database the query sent as i-th of the last search is meant for: the
\* one search passed with the catalog query, else the active database as
\* executeQueryWithDatabase could resolve it at that call
TargetDatabase(i) ==
    LET Site == IF last.trace.sent[i].query.q = "ALL_OBJECTS_QUERY"
                THEN "fetch" ELSE "columns"
        Given == IF last.trace.sent[i].query.q = "ALL_OBJECTS_QUERY"
                 THEN ResolvedDatabase ELSE Undefined
    IN  IF Given # Undefined THEN Given
        ELSE IF last.trace.thrown = <<"activeDatabase", Site>> THEN Undefined
        ELSE last.db

\* C32: every catalog or column query whose target database D is known is
\* sent prefixed with USE [D]; a query goes out bare only when no database
\* was given and the active database could not be resolved.
C32_QueriesNameTheirDatabase ==
    last.op = "search"
        => \A i \in 1..Len(last.trace.sent) :
              /\ TargetDatabase(i) # Undefined
                    => last.trace.sent[i].query.use = TargetDatabase(i)
              /\ last.trace.sent[i].query.use = Undefined
                    => /\ TargetDatabase(i) = Undefined
                       /\ \/ last.db = Undefined
                          \/ last.trace.thrown[1] = "activeDatabase"

\* the catalog query and the column query of one search, both under USE [db1]
C32_Witness ==
    /\ last.op = "search"
    /\ last.db = "db1"
    /\ Len(last.trace.sent) = 2
    /\ last.trace.sent[1].query = [use |-> "db1", q |-> "ALL_OBJECTS_QUERY"]
    /\ last.trace.sent[2].query = [use |-> "db1", q |-> "COLUMNS_QUERY"]

\* with no active database the catalog query goes out bare
C32_WitnessBare ==
    /\ last.op = "search"
    /\ last.db = Undefined
    /\ Len(last.trace.sent) >= 1
    /\ last.trace.sent[1].query = [use |-> Undefined, q |-> "ALL_OBJECTS_QUERY"]

\* C33: when invocations of search overlap on a miss for one key, each makes
\* its bulk fetch and stores: the store puts the whole transformed result of
\* that one fetch under the key and touches nothing else (the last write
\* wins, no merge, no partial sequence), a fetch without rows stores
\* nothing, and each invocation returns the whole result of its own fetch.
C33_LastWriteWins ==
    [][\A i \in Invocations :
         /\ (calls[i].pc = "fetching" /\ calls'[i].pc = "listed"
                /\ calls'[i].rows # <<>>)
              => /\ objectsCache'
                      = MapSet(objectsCache, calls[i].key,
                               Transformed(calls'[i].rows, calls[i].database))
                 /\ Len(objectsCache'[calls[i].key]) = Len(calls'[i].rows)
                 /\ calls'[i].objects = objectsCache'[calls[i].key]
         /\ (calls[i].pc = "fetching" /\ calls'[i].pc = "listed"
                /\ calls'[i].rows = <<>>)
              => /\ objectsCache' = objectsCache
                 /\ calls'[i].objects = <<>>
         /\ (calls[i].pc = "listed" /\ calls'[i].pc = "done" /\ calls[i].fetched)
              => calls'[i].ret = Transformed(calls[i].rows, calls[i].database)
      ]_vars

\* both invocations missed the key db1 and fetched; the entry is what the
\* second fetched, the first holds what it fetched itself
C33_Witness ==
    /\ \A i \in Invocations :
         /\ calls[i].pc = "done"
         /\ calls[i].fetched
         /\ ~calls[i].force
         /\ calls[i].key = "db1"
    /\ calls["first"].rows = <<RowTable, RowProc>>
    /\ calls["second"].rows = <<RowProc>>
    /\ objectsCache["db1"] = Transformed(<<RowProc>>, "db1")
    /\ calls["first"].ret = Transformed(<<RowTable, RowProc>>, "db1")
    /\ calls["second"].ret = Transformed(<<RowProc>>, "db1")

\* C34: a refresh is not undone: the entry found under a key was never
\* stored by a fetch whose query was sent before the catalog cache was last
\* cleared.
C34_RefreshNotUndone ==
    \A k \in DOMAIN objectsCache : k \notin stale

\* the first invocation's fetch was under way when the second cleared the
\* cache, fetched and stored; then the first stored its older rows over them
C34_Witness ==
    /\ calls["first"].pc = "listed"
    /\ ~calls["first"].force
    /\ calls["first"].early
    /\ calls["first"].rows = <<RowTable>>
    /\ calls["second"].pc = "done"
    /\ calls["second"].force
    /\ calls["second"].rows = <<RowTable, RowProc>>
    /\ objectsCache["db1"] = Transformed(<<RowTable>>, "db1")
    /\ "db1" \in stale

\* C35: a column map stored under the session search resolved was fetched
\* over that session and against the database search resolved, whatever
\* becomes of the active connection and database between the awaits.
C35_ColumnsOfTheSearchedSession ==
    \A i \in Invocations :
        calls[i].colStored
            => /\ calls[i].colSent.uri = calls[i].uri
               /\ calls[i].colSent.use = calls[i].database

\* search resolved session s1 and database db1; the column query went out
\* over s2 under USE [db2], and its map was stored under s1 and attached
C35_Witness ==
    /\ calls["first"].pc = "done"
    /\ calls["first"].colStored
    /\ calls["first"].uri = "s1"
    /\ calls["first"].database = "db1"
    /\ calls["first"].colSent = [uri |-> "s2", use |-> "db2"]
    /\ "s1" \in DOMAIN columnCache
    /\ "s2" \notin DOMAIN columnCache
    /\ \E k \in 1..Len(calls["first"].ret) :
         /\ calls["first"].ret[k].database = "db1"
         /\ calls["first"].ret[k].columns = "Id, Name"

\* C36: a script request is served over a scripting session that derives
\* from the connection active at the request: when the request before
\* memoized a session for the database under one connection and this one is
\* made under another connection with the same database, the script is not
\* requested over the memoized session unless a scripting session was
\* established anew.
C36_ScriptingSessionOfActiveConnection ==
    [][(/\ last.op = "scriptObject"
        /\ last'.op = "scriptObject"
        /\ last.conn # Undefined
        /\ last.db # Undefined
        /\ last.trace.legacyConnects = 1
        /\ last.db \in DOMAIN scriptingUriCache
        /\ last'.conn \notin {Undefined, last.conn}
        /\ last'.db = last.db
        /\ last'.trace.scripted # <<>>)
          => \/ last'.trace.legacyConnects = 1
             \/ last'.trace.scripted[1].uri # scriptingUriCache[last.db]
      ]_vars

\* a script requested under connection c2 over the session memoized for db1
\* while c1 was active; no session was resolved and c1 is still the cached
\* identity
C36_Witness ==
    /\ last.op = "scriptObject"
    /\ last.conn = "c2"
    /\ last.db = "db1"
    /\ last.pre.cachedConnectionId = "c1"
    /\ cachedConnectionId = "c1"
    /\ "db1" \in DOMAIN last.pre.scriptingUriCache
    /\ Len(last.trace.scripted) = 1
    /\ last.trace.scripted[1].uri = last.pre.scriptingUriCache["db1"]
    /\ last.trace.legacyConnects = 0
    /\ last.trace.connects = 0
    /\ last.trace.reused = 0

\* the last script request asked for the scripting session of its active
\* database and got none
NoScriptingSession ==
    /\ last.op = "scriptObject"
    /\ last.db # Undefined
    /\ last.trace.thrown # <<"activeDatabase", "script">>
    /\ last.trace.scripted = <<>>

\* C37: a scripting session that could not be established is not memoized:
\* after a request that got no scripting session for its database (no
\* primary session, or the connect threw or gave no session id) the
\* scripting-session map has no entry for that database, so that the next
\* request tries again.
C37_FailureNotMemoized ==
    NoScriptingSession => last.db \notin DOMAIN scriptingUriCache

\* the legacy connect gave no session id for db1 before; this request finds
\* the undefined entry and gives up without trying to connect
C37_Witness ==
    /\ NoScriptingSession
    /\ last.conn = "c1"
    /\ last.db = "db1"
    /\ "db1" \in DOMAIN last.pre.scriptingUriCache
    /\ last.pre.scriptingUriCache["db1"] = Undefined
    /\ last.trace.legacyConnects = 0
    /\ last.trace.connects = 0
    /\ last.trace.reused = 0
    /\ last.trace.thrown = NoFault
    /\ last.script = Undefined

\* what is not memoized: a missing primary session and a connect that threw
C37_ThrowAndNoPrimaryNotMemoized ==
    (/\ NoScriptingSession
     /\ last.db \notin DOMAIN last.pre.scriptingUriCache
     /\ last.trace.legacyConnects = 0 \/ last.trace.thrown # NoFault)
        => last.db \notin DOMAIN scriptingUriCache

\* the active database as scriptObject learnt it in the last request
ScriptingDatabase ==
    IF last.trace.thrown = <<"activeDatabase", "script">> THEN Undefined ELSE last.db

\* C38: scriptObject asks the backend over the scripting session of the
\* active database when it knows one and over the primary session
\* otherwise; without that session it returns nothing and does not call
\* the backend, so that every backend scripting call goes over a session
\* resolved in the request.
C38_ScriptedOverTheChosenSession ==
    last.op = "scriptObject"
        => /\ Len(last.trace.scripted) <= 1
           /\ \A i \in 1..Len(last.trace.scripted) :
                /\ last.trace.scripted[i].uri # Undefined
                /\ ScriptingDatabase # Undefined
                     => /\ ScriptingDatabase \in DOMAIN scriptingUriCache
                        /\ last.trace.scripted[i].uri
                             = scriptingUriCache[ScriptingDatabase]
                        /\ \/ ScriptingDatabase \in DOMAIN last.pre.scriptingUriCache
                           \/ last.trace.legacyConnects = 1
                /\ ScriptingDatabase = Undefined
                     => /\ last.trace.scripted[i].uri = cachedConnectionUri
                        /\ last.trace.legacyConnects = 0
                        /\ last.trace.connects + last.trace.reused >= 1
           /\ last.trace.scripted = <<>> => last.script = Undefined
           /\ (/\ ScriptingDatabase # Undefined
               /\ ScriptingDatabase \in DOMAIN scriptingUriCache
               /\ scriptingUriCache[ScriptingDatabase] = Undefined)
                => last.trace.scripted = <<>>
           /\ (ScriptingDatabase = Undefined /\ cachedConnectionUri = Undefined)
                => last.trace.scripted = <<>>

\* with db2 active the script was requested over the scripting session just
\* established for db2, not over the primary session
C38_Witness ==
    /\ last.op = "scriptObject"
    /\ last.db = "db2"
    /\ last.trace.legacyConnects = 1
    /\ Len(last.trace.scripted) = 1
    /\ last.trace.scripted[1].uri = scriptingUriCache["db2"]
    /\ last.trace.scripted[1].uri # cachedConnectionUri
    /\ last.script # Undefined

\* the primary session cache holds a session id and a connection identity,
\* or neither (and then no database)
PrimaryAllOrNothing ==
    /\ (cachedConnectionUri = Undefined) <=> (cachedConnectionId = Undefined)
    /\ cachedConnectionUri = Undefined => cachedDatabase = Undefined

\* the primary session cache is left as it was
PrimaryKept ==
    /\ cachedConnectionUri' = cachedConnectionUri
    /\ cachedConnectionId' = cachedConnectionId
    /\ cachedDatabase' = cachedDatabase

\* C39: the primary session cache is all-or-nothing: the session id is set
\* exactly when the connection identity is set, and a session id that is set
\* is the one returned by the most recent successful connect, made while the
\* cached connection identity and database were the active ones.
C39_PrimaryCacheAllOrNothing ==
    /\ PrimaryAllOrNothing
    /\ [][/\ PrimaryAllOrNothing'
          /\ cachedConnectionUri' # Undefined
               => /\ last'.trace.connects <= 1
                  /\ last'.trace.connects = 0 => PrimaryKept
                  /\ last'.trace.connects = 1
                       => \/ /\ PrimaryKept
                             /\ <<cachedConnectionId, cachedDatabase>>
                                  # <<last'.conn, last'.db>>
                             /\ last'.op = "resolve" => last'.uri = Undefined
                          \/ /\ cachedConnectionUri' \in Uris
                             /\ cachedConnectionId' = last'.conn
                             /\ cachedDatabase' = last'.db
                             /\ last'.op = "resolve"
                                  => cachedConnectionUri' = last'.uri]_vars

\* a connect made for c2 replaced the session cached for c1
C39_Witness ==
    /\ last.op = "resolve"
    /\ last.trace.connects = 1
    /\ last.pre.cachedConnectionUri = "s1"
    /\ last.pre.cachedConnectionId = "c1"
    /\ last.conn = "c2"
    /\ last.uri = "s2"
    /\ cachedConnectionUri = "s2"
    /\ cachedConnectionId = "c2"
    /\ cachedDatabase = last.db

\* ensureTopClause applied to what the last application gave, same limit
RewrittenAgain == ensureTopClause(last.generated.text, last.rowLimit)

\* C40: ensureTopClause is idempotent for a fixed limit: applied with limit
\* L to what it gave for a script and L, it gives that text again.
C40_EnsureTopClauseIdempotent ==
    last.op = "ensureTopClause" => RewrittenAgain = last.generated.text

\* SELECT TOP(50)1 x FROM [dbo].[T] with limit 1000 gave SELECT TOP 10001 x
\* FROM [dbo].[T], which a second application turns into SELECT TOP 1000 x
\* FROM [dbo].[T]
C40_Witness ==
    /\ last.op = "ensureTopClause"
    /\ last.rowLimit = 1000
    /\ last.input = <<"S", "E", "L", "E", "C", "T", " ", "T", "O", "P", "(",
                      "5", "0", ")", "1", " ", "x", " ", "F", "R", "O", "M",
                      " ", "[", "d", "b", "o", "]", ".", "[", "T", "]">>
    /\ last.generated.text
         = <<"S", "E", "L", "E", "C", "T", " ", "T", "O", "P", " ", "1", "0",
             "0", "0", "1", " ", "x", " ", "F", "R", "O", "M", " ", "[", "d",
             "b", "o", "]", ".", "[", "T", "]">>
    /\ RewrittenAgain
         = <<"S", "E", "L", "E", "C", "T", " ", "T", "O", "P", " ", "1", "0",
             "0", "0", " ", "x", " ", "F", "R", "O", "M", " ", "[", "d", "b",
             "o", "]", ".", "[", "T", "]">>

\* a second application changes nothing when no digit follows the replaced
\* clause
C40_IdempotentWhenSeparated ==
    (last.op = "ensureTopClause" /\ TopClauseSeparated(last.input))
        => RewrittenAgain = last.generated.text

\* a script without TOP got the clause and a second application left it alone
C40_WitnessInjected ==
    /\ last.op = "ensureTopClause"
    /\ SelectTopStart(last.input) = 0
    /\ last.generated.text # last.input
    /\ RewrittenAgain = last.generated.text

====
